---------------------------- MODULE Spec2Model ----------------------------
(***************************************************************************)
(* Archive Origin backend: the Merkle kernel (merkle.py), the Merkle       *)
(* sealer (ledger.py) and the device token service and lock-proof writer   *)
(* (main.py, security.py), as state machines.                              *)
(*                                                                         *)
(* Python strings are sequences of one-character strings.  A SHA-256 hex   *)
(* digest of a string s is the token sequence <<"H(">> \o s \o <<")">>: a  *)
(* collision-free digest, kept as a string so that digests concatenate and *)
(* hash again as in the code.                                              *)
(*                                                                         *)
(* Instants are counted in units of 86400 s, the greatest common divisor   *)
(* of the two durations the token service uses (30 days and 7 days).       *)
(***************************************************************************)
EXTENDS Integers, Sequences, FiniteSets, TLC

VARIABLES
    leaves,           \* merkle.py: the argument of the kernel call under test
    root_out,         \* merkle.py: what compute_merkle_root(leaves) did
    tree_out,         \* merkle.py: what build_merkle_tree(leaves) did
    now,              \* the server clock (security.now_utc / datetime.now)
    device_tokens,    \* table device_tokens: device_id -> row or NoRow
    next_token,       \* number of tokens new_token_urlsafe has handed out
    enroll_resp,      \* the last answer of POST /device/enroll
    capture_records,  \* table capture_records: sequence of rows, by insertion
    lock_resp,        \* the last answer of POST /lock-proof
    sealer,           \* per sealer process: the locals of seal_pending_records
    next_batch,       \* number of ULIDs allocated as batch ids
    ledger,           \* the ledger artifact tree on disk
    commits,          \* history: the batch ids whose session.commit() returned
    enroll_calls,     \* per in-flight POST /device/enroll: the locals of enroll_device
    clock,            \* the verifier's clock in seconds (time.time, trusted_time.now)
    ledger_entries,   \* table ledger_entries
    attestation_certs,\* table attestation_certs
    replay_cache,     \* verification.REPLAY_CACHE
    verify_resp,      \* what the last perform_verification returned or raised
    crl_pass,         \* the locals of the refresh_crls pass in progress
    ingest_result,    \* what the last ingest_certificate did
    rate_cache,       \* the items of the rate limiter's cache
    settings,         \* config.settings, fixed when the service starts
    trusted_time,     \* time_sync.trusted_time and the threads inside its now()
    resp_headers      \* the headers of the last response of a verifier endpoint

vars == <<leaves, root_out, tree_out, now, device_tokens, next_token,
          enroll_resp, capture_records, lock_resp, sealer, next_batch, ledger,
          commits, enroll_calls, clock, ledger_entries, attestation_certs,
          replay_cache, verify_resp, crl_pass, ingest_result, rate_cache,
          settings, trusted_time,
      resp_headers>>

\* the state of the handlers that run beside the token service and the sealer
verifyVars == <<ledger_entries, attestation_certs, replay_cache, verify_resp,
                crl_pass, ingest_result, rate_cache>>
apiVars == <<enroll_calls, clock, verifyVars, settings, trusted_time,
      resp_headers>>

merkleVars == <<leaves, root_out, tree_out>>
tokenVars  == <<device_tokens, next_token, enroll_resp>>
sealVars   == <<capture_records, lock_resp, sealer, next_batch, ledger, commits>>

-----------------------------------------------------------------------------
(* time_sync.py: TrustedTime *)

refresh_interval == 60

\* the threads that call trusted_time.now()
Threads == {"t1", "t2"}

\* the object after __init__ (lines 15-19), with no thread inside now(); starts
\* is the history of the instants at which a refresh was started
TrustedTimeIdle ==
    [lock |-> "", last_fetch |-> 0, offset |-> 0, starts |-> {},
     pc |-> [t \in Threads |-> "out"], current |-> [t \in Threads |-> 0],
     adjusted |-> [t \in Threads |-> 0]]

\* line 26 leaving _last_fetch as it was
LastFetchKept(tt, current) == tt.last_fetch

\* line 26: self._last_fetch = current
LastFetchAfter(tt, current) == current

\* a thread calls now() and comes to `with self._lock` (line 22)
TimeCall(t) ==
    /\ trusted_time.pc[t] = "out"
    /\ trusted_time' = [trusted_time EXCEPT !.pc[t] = "lock"]

\* lines 22-25: the thread takes the free lock, reads time() and either
\* starts the refresh or goes on to line 27
TimeAcquire(t) ==
    /\ trusted_time.pc[t] = "lock"
    /\ trusted_time.lock = ""
    /\ trusted_time' =
          [trusted_time EXCEPT
              !.lock = t,
              !.current[t] = clock,
              !.pc[t] = IF clock - trusted_time.last_fetch > refresh_interval
                        THEN "refresh" ELSE "adjust",
              !.starts = IF clock - trusted_time.last_fetch > refresh_interval
                         THEN @ \cup {clock} ELSE @]

\* the offsets an NTP server may answer with
Offsets == {-2, 3}

\* lines 30-40 and 26: the requests to the servers have ended, with the
\* offset of the first server that answered or 0 when none did
TimeRefresh(t) ==
    /\ trusted_time.pc[t] = "refresh"
    /\ \E offset \in Offsets \cup {0} :
          trusted_time' =
              [trusted_time EXCEPT
                  !.offset = offset,
                  !.last_fetch = LastFetchAfter(trusted_time, trusted_time.current[t]),
                  !.pc[t] = "adjust"]

\* lines 27-28: the adjusted time, the release of the lock and the return
TimeReturn(t) ==
    /\ trusted_time.pc[t] = "adjust"
    /\ trusted_time' =
          [trusted_time EXCEPT
              !.adjusted[t] = trusted_time.current[t] + trusted_time.offset,
              !.lock = "",
              !.pc[t] = "out"]

TrustedTimeNow ==
    \E t \in Threads :
        /\ TimeCall(t) \/ TimeAcquire(t) \/ TimeRefresh(t) \/ TimeReturn(t)
        /\ UNCHANGED <<merkleVars, now, tokenVars, sealVars, enroll_calls, settings, clock,
                       verifyVars, resp_headers>>

-----------------------------------------------------------------------------
(* Strings *)

RECURSIVE Rep(_, _)
Rep(c, n) == IF n = 0 THEN <<>> ELSE <<c>> \o Rep(c, n - 1)

StartsWith(s, p) == Len(s) >= Len(p) /\ SubSeq(s, 1, Len(p)) = p

\* str.lower() on ASCII characters
LowerCase ==
    "A" :> "a" @@ "B" :> "b" @@ "C" :> "c" @@ "D" :> "d" @@
    "E" :> "e" @@ "F" :> "f" @@ "G" :> "g" @@ "H" :> "h" @@
    "I" :> "i" @@ "J" :> "j" @@ "K" :> "k" @@ "L" :> "l" @@
    "M" :> "m" @@ "N" :> "n" @@ "O" :> "o" @@ "P" :> "p" @@
    "Q" :> "q" @@ "R" :> "r" @@ "S" :> "s" @@ "T" :> "t" @@
    "U" :> "u" @@ "V" :> "v" @@ "W" :> "w" @@ "X" :> "x" @@
    "Y" :> "y" @@ "Z" :> "z"

LowerChar(c) == IF c \in DOMAIN LowerCase THEN LowerCase[c] ELSE c

Lower(s) == [i \in 1..Len(s) |-> LowerChar(s[i])]

HexLower == {"0", "1", "2", "3", "4", "5", "6", "7", "8", "9",
             "a", "b", "c", "d", "e", "f"}
HexAny == HexLower \cup {"A", "B", "C", "D", "E", "F"}

\* hashlib.sha256(data).hexdigest()
Sha256Hex(data) == <<"H(">> \o data \o <<")">>

-----------------------------------------------------------------------------
(* merkle.py *)

SHA256_PREFIX == <<"s", "h", "a", "2", "5", "6", ":">>
SHA256_LENGTH == 64

MerkleComputationError(msg) == [ok |-> FALSE, error |-> "MerkleComputationError", msg |-> msg]

\* _strip_prefix: the digest, lower-cased, or the error raised
_strip_prefix(value) ==
    IF ~StartsWith(value, SHA256_PREFIX)
    THEN MerkleComputationError("hash must start with 'sha256:'")
    ELSE LET digest == SubSeq(value, Len(SHA256_PREFIX) + 1, Len(value))
         IN  IF Len(digest) # SHA256_LENGTH
             THEN MerkleComputationError("sha256 digest must be 64 hex characters")
             ELSE [ok |-> TRUE, digest |-> Lower(digest)]

\* _hash_pair
_hash_pair(left, right) == Sha256Hex(left \o right)

\* NextLevel with the odd node promoted unhashed instead of duplicated
NextLevelPromoteOdd(level) ==
    [i \in 1..((Len(level) + 1) \div 2) |->
        IF 2 * i <= Len(level)
        THEN _hash_pair(level[2 * i - 1], level[2 * i])
        ELSE level[2 * i - 1]]

\* one round of the while loop: duplicate the last node of an odd level, then
\* hash the adjacent pairs left to right
NextLevel(level) ==
    LET padded == IF Len(level) % 2 = 1
                  THEN level \o <<level[Len(level)]>>
                  ELSE level
    IN  [i \in 1..(Len(padded) \div 2) |->
            _hash_pair(padded[2 * i - 1], padded[2 * i])]

\* ReduceLevel as a do-while loop: one round even for a single node
RECURSIVE ReduceLevelDoWhile(_)
ReduceLevelDoWhile(level) ==
    LET next == [i \in 1..((Len(level) + 1) \div 2) |->
                    _hash_pair(level[2 * i - 1],
                               level[IF 2 * i <= Len(level) THEN 2 * i ELSE 2 * i - 1])]
    IN  IF Len(next) > 1 THEN ReduceLevelDoWhile(next) ELSE next

\* lines 38-44: the while loop of compute_merkle_root
RECURSIVE ReduceLevel(_)
ReduceLevel(level) ==
    IF Len(level) > 1 THEN ReduceLevel(NextLevel(level)) ELSE level

\* the levels build_merkle_tree appends, starting from `current`
RECURSIVE TreeLevels(_)
TreeLevels(current) ==
    IF Len(current) > 1
    THEN <<current>> \o TreeLevels(NextLevel(current))
    ELSE <<current>>

\* [_strip_prefix(leaf) for leaf in leaves]: the first error raised, if any
StripAll(ls) ==
    LET res == [i \in 1..Len(ls) |-> _strip_prefix(ls[i])]
        bad == {i \in 1..Len(ls) : ~res[i].ok}
    IN  IF bad # {}
        THEN res[CHOOSE i \in bad : \A j \in bad : i <= j]
        ELSE [ok |-> TRUE, level |-> [i \in 1..Len(ls) |-> res[i].digest]]

compute_merkle_root(ls) ==
    IF ls = <<>>
    THEN MerkleComputationError("at least one leaf hash is required")
    ELSE LET s == StripAll(ls)
         IN  IF ~s.ok THEN s
             ELSE [ok |-> TRUE, root |-> SHA256_PREFIX \o ReduceLevel(s.level)[1]]

build_merkle_tree(ls) ==
    IF ls = <<>>
    THEN MerkleComputationError("at least one leaf hash is required")
    ELSE LET s == StripAll(ls)
         IN  IF ~s.ok THEN s
             ELSE LET levels == TreeLevels(s.level)
                  IN  [ok |-> TRUE,
                       root |-> SHA256_PREFIX \o levels[Len(levels)][1],
                       levels |-> levels]

-----------------------------------------------------------------------------
(* schemas.py *)

\* the check of _strip_prefix (prefix and length) in place of the pattern
SHA256_PREFIXED_LengthOnly(v) ==
    /\ StartsWith(v, SHA256_PREFIX)
    /\ Len(v) = Len(SHA256_PREFIX) + 64

\* SHA256_PREFIXED = ^sha256:[0-9a-fA-F]{64}$
SHA256_PREFIXED(v) ==
    /\ StartsWith(v, SHA256_PREFIX)
    /\ Len(v) = Len(SHA256_PREFIX) + 64
    /\ \A i \in (Len(SHA256_PREFIX) + 1)..Len(v) : v[i] \in HexAny

-----------------------------------------------------------------------------
(* The kernel under test: one call of each function on a bounded input *)

MaxLeaves == 4

LeafA        == SHA256_PREFIX \o Rep("a", 64)
LeafB        == SHA256_PREFIX \o Rep("b", 64)
LeafUpper    == SHA256_PREFIX \o Rep("F", 64)
LeafNonHex   == SHA256_PREFIX \o Rep("g", 64)
LeafShort    == SHA256_PREFIX \o Rep("a", 63)
LeafNoPrefix == <<"m", "d", "5", ":">> \o Rep("a", 64)

LeafPool == {LeafA, LeafB, LeafUpper, LeafNonHex, LeafShort, LeafNoPrefix}

LeafSeqs == UNION {[1..n -> LeafPool] : n \in 0..MaxLeaves}

NotCalled == [ok |-> FALSE, error |-> "not_called", msg |-> ""]

MerkleIdle == leaves = <<>> /\ root_out = NotCalled /\ tree_out = NotCalled

ComputeRoot ==
    /\ root_out = NotCalled
    /\ root_out' = compute_merkle_root(leaves)
    /\ UNCHANGED <<apiVars, leaves, tree_out, now, tokenVars, sealVars>>

BuildTree ==
    /\ tree_out = NotCalled
    /\ tree_out' = build_merkle_tree(leaves)
    /\ UNCHANGED <<apiVars, leaves, root_out, now, tokenVars, sealVars>>

-----------------------------------------------------------------------------
(* config.py, security.py *)

\* settings.device_token_ttl_seconds = 30 days, in units of 86400 s
device_token_ttl_seconds == 30
\* settings.device_token_renewal_buffer = 7 days, in units of 86400 s
device_token_renewal_buffer == 7

\* is_expired with a strict comparison
is_expired_after(expires_at) == expires_at < now

is_expired(expires_at) == expires_at <= now

\* near_expiry with a strict comparison
near_expiry_strict(expires_at, buffer_seconds) == (expires_at - now) < buffer_seconds

near_expiry(expires_at, buffer_seconds) == (expires_at - now) <= buffer_seconds

\* public keys are [scheme, body]; the bodies base64.b64decode accepts
Base64Bodies == {"AAAA", "BBBB"}

validate_pubkey_format(public_key) ==
    /\ public_key.scheme = "ed25519"
    /\ public_key.body \in Base64Bodies

-----------------------------------------------------------------------------
(* main.py: POST /device/enroll *)

Devices == {"d1", "d2"}

KeyA == [scheme |-> "ed25519", body |-> "AAAA"]
KeyB == [scheme |-> "ed25519", body |-> "BBBB"]
KeyBadScheme == [scheme |-> "rsa", body |-> "AAAA"]
KeyBadBody == [scheme |-> "ed25519", body |-> "@@"]

\* tokens are numbered in the order new_token_urlsafe returns them;
\* NoToken is an absent or empty current_token, BogusToken one never issued
NoToken == 0
BogusToken == -1

\* db.get(DeviceToken, device_id): the rows with that primary key
RowsOf(d) == {r \in device_tokens : r.device_id = d}

EnrollError(d, code, detail) ==
    [status |-> code, device_id |-> d, token |-> NoToken, issued_at |-> -1,
     expires_at |-> -1, detail |-> detail]

EnrollResponse(d, token, issued_at, expires_at, detail) ==
    [status |-> 200, device_id |-> d, token |-> token, issued_at |-> issued_at,
     expires_at |-> expires_at, detail |-> detail]

\* EnrollBranch with the token compared only when one is supplied
EnrollBranchTokenOptional(existing, current_token, force) ==
    IF existing # {} /\ ~force
    THEN LET row == CHOOSE r \in existing : TRUE
         IN  IF current_token # NoToken /\ current_token # row.token
             THEN "forbidden"
             ELSE IF row.force_renewal_required = FALSE
                     /\ ~near_expiry(row.expires_at, device_token_renewal_buffer)
                  THEN "reuse"
                  ELSE "issue"
    ELSE "issue"

\* EnrollBranch with the token enforced only outside the renewal buffer
EnrollBranchUnlessNearExpiry(existing, current_token, force) ==
    IF existing # {} /\ ~force
    THEN LET row == CHOOSE r \in existing : TRUE
         IN  IF row.force_renewal_required = FALSE
                /\ ~near_expiry(row.expires_at, device_token_renewal_buffer)
             THEN IF current_token = NoToken \/ current_token # row.token
                  THEN "forbidden"
                  ELSE "reuse"
             ELSE "issue"
    ELSE "issue"

\* lines 127-133: the branch of enroll_device a request takes, given the row read
EnrollBranch(existing, current_token, force) ==
    IF existing # {} /\ ~force
    THEN LET row == CHOOSE r \in existing : TRUE
         IN  IF current_token = NoToken \/ current_token # row.token
             THEN "forbidden"
             ELSE IF row.force_renewal_required = FALSE
                     /\ ~near_expiry(row.expires_at, device_token_renewal_buffer)
                  THEN "reuse"
                  ELSE "issue"
    ELSE "issue"

\* the row the issue path adds for a device that has none
IssuedRow(d, public_key, token) ==
    [device_id |-> d, token |-> token, public_key |-> public_key,
     issued_at |-> now, expires_at |-> now + device_token_ttl_seconds,
     force_renewal_required |-> FALSE]

\* RotatedRow without line 159: the sticky flag survives the rotation
RotatedRowKeepsFlag(row, public_key, token) ==
    [row EXCEPT !.token = token,
                !.public_key = public_key,
                !.issued_at = now,
                !.expires_at = now + device_token_ttl_seconds]

\* lines 153-159: the row read, as the issue path rewrites it
RotatedRow(row, public_key, token) ==
    [row EXCEPT !.token = token,
                !.public_key = public_key,
                !.issued_at = now,
                !.expires_at = now + device_token_ttl_seconds,
                !.force_renewal_required = FALSE]

enroll_device(d, public_key, current_token, force, devicecheck_ok) ==
    LET existing == RowsOf(d)
        branch == EnrollBranch(existing, current_token, force)
        token == next_token + 1
    IN  IF ~validate_pubkey_format(public_key)
        THEN /\ enroll_resp' = EnrollError(d, 400, "public_key must be 'ed25519:<base64>'")
             /\ UNCHANGED <<device_tokens, next_token>>
        ELSE IF ~devicecheck_ok
        THEN /\ enroll_resp' = EnrollError(d, 403, "devicecheck")
             /\ UNCHANGED <<device_tokens, next_token>>
        ELSE IF branch = "forbidden"
        THEN /\ enroll_resp' = EnrollError(d, 403, "current_token required and must match existing token")
             /\ UNCHANGED <<device_tokens, next_token>>
        ELSE IF branch = "reuse"
        THEN LET row == CHOOSE r \in existing : TRUE
             IN  /\ enroll_resp' = EnrollResponse(d, row.token, row.issued_at, row.expires_at, "reused")
                 /\ UNCHANGED <<device_tokens, next_token>>
        ELSE /\ next_token' = token
             /\ device_tokens' =
                    IF existing = {}
                    THEN \* db.add(DeviceToken(...))
                         device_tokens \cup {IssuedRow(d, public_key, token)}
                    ELSE \* the row read is updated in place
                         LET row == CHOOSE r \in existing : TRUE
                         IN  (device_tokens \ {row}) \cup {RotatedRow(row, public_key, token)}
             /\ enroll_resp' = EnrollResponse(d, token, now, now + device_token_ttl_seconds, "issued")

MaxTokens == 3

PublicKeys == {KeyA, KeyB, KeyBadScheme}

Enroll ==
    \E d \in Devices, public_key \in PublicKeys,
       current_token \in {NoToken, BogusToken} \cup 1..next_token,
       force \in BOOLEAN, devicecheck_ok \in BOOLEAN :
        /\ enroll_device(d, public_key, current_token, force, devicecheck_ok)
        /\ next_token' <= MaxTokens
        /\ UNCHANGED <<apiVars, merkleVars, now, sealVars>>

\* force_renewal_required is set out of band (no handler of the service sets it)
FlagForceRenewal ==
    \E row \in device_tokens :
        /\ ~row.force_renewal_required
        /\ device_tokens' = (device_tokens \ {row}) \cup
                                {[row EXCEPT !.force_renewal_required = TRUE]}
        /\ UNCHANGED <<apiVars, merkleVars, now, next_token, enroll_resp, sealVars>>

\* the clock advances to a later one of the instants the model observes
Advance(instants) ==
    /\ \E t \in instants : t > now /\ now' = t
    /\ UNCHANGED <<apiVars, merkleVars, tokenVars, sealVars>>

-----------------------------------------------------------------------------
(* models.py: CaptureRecord; main.py: POST /lock-proof *)

\* NULL in the three sealing columns
NoBatch == 0
NoRoot == <<>>
NoTime == -1

NoDevice == ""
NoKey == [scheme |-> "", body |-> ""]

verify_base_url == "https://verify.archiveorigin.com"

LockError(code, detail) ==
    [status |-> code, body_status |-> "", record_id |-> 0, verify_url |-> <<>>,
     merkle |-> <<NoBatch, NoRoot, NoTime>>, detail |-> detail]

\* a request: the three headers, the validated body, and whether the body's
\* capture_time_utc parses and its signature verifies; verify_signatures is
\* settings.verify_signatures of the deployment that serves it
lock_proof(req) ==
    LET dev == RowsOf(req.x_device_id)
        record_id == Len(capture_records) + 1
        verify_url == <<verify_base_url, "/v/", record_id>>
        rec == [record_id |-> record_id,
                verify_url |-> verify_url,
                asset_hash |-> req.asset_hash,
                device_id |-> req.device_id,
                device_pubkey |-> req.device_pubkey,
                created_at_utc |-> now,
                merkle_batch_id |-> NoBatch,
                merkle_root_hash |-> NoRoot,
                merkle_sealed_at_utc |-> NoTime]
        reject(code, detail) ==
            /\ lock_resp' = LockError(code, detail)
            /\ UNCHANGED capture_records
    IN  IF ~SHA256_PREFIXED(req.asset_hash) \/ ~req.capture_time_ok
        THEN reject(422, "validation")
        ELSE IF req.auth_kind # "bearer"
        THEN reject(401, "Missing or invalid Authorization header")
        ELSE IF req.x_device_id = NoDevice \/ req.x_device_pubkey = NoKey
        THEN reject(400, "Missing X-Device-ID or X-Device-PublicKey headers")
        ELSE IF req.device_id # req.x_device_id \/ req.device_pubkey # req.x_device_pubkey
        THEN reject(400, "device_id/public_key mismatch between headers and body")
        ELSE IF dev = {} \/ (\A r \in dev : r.token # req.token)
        THEN reject(403, "Invalid token or device")
        ELSE IF \A r \in dev : r.public_key # req.x_device_pubkey
        THEN reject(403, "Public key mismatch")
        ELSE IF \A r \in dev : is_expired(r.expires_at)
        THEN reject(401, "Token expired")
        ELSE IF req.verify_signatures /\ ~req.signature_ok
        THEN reject(400, "Invalid signature")
        ELSE /\ capture_records' = Append(capture_records, rec)
             /\ lock_resp' = [status |-> 200, body_status |-> "LOCKED",
                              record_id |-> record_id, verify_url |-> verify_url,
                              merkle |-> <<NoBatch, NoRoot, NoTime>>, detail |-> ""]

MaxRecords == 2

LockRequest(kind, token, hd, hk, bd, bk, hash, time_ok, sig_ok, vs) ==
    [auth_kind |-> kind, token |-> token, x_device_id |-> hd, x_device_pubkey |-> hk,
     device_id |-> bd, device_pubkey |-> bk, asset_hash |-> hash,
     capture_time_ok |-> time_ok, signature_ok |-> sig_ok, verify_signatures |-> vs]

LockProof(requests) ==
    \E req \in requests :
        /\ lock_proof(req)
        /\ Len(capture_records') <= MaxRecords
        /\ UNCHANGED <<apiVars, merkleVars, now, tokenVars, sealer, next_batch, ledger, commits>>

-----------------------------------------------------------------------------
(* ledger.py *)

Sealers == {"s1", "s2"}

MaxBatches == 2

\* the rows the select statement returns (merkle_batch_id IS NULL), as indices
PendingIds == {i \in 1..Len(capture_records) :
                  capture_records[i].merkle_batch_id = NoBatch}

\* the select statement without its ORDER BY clause
SelectOrdersUnordered ==
    {f \in [1..Cardinality(PendingIds) -> PendingIds] :
        \A i, j \in DOMAIN f : i # j => f[i] # f[j]}

\* ORDER BY created_at_utc ASC: every order of the rows that is ascending in
\* created_at_utc (the database is free to order rows of equal created_at_utc)
SelectOrders ==
    {f \in [1..Cardinality(PendingIds) -> PendingIds] :
        /\ \A i, j \in DOMAIN f : i # j => f[i] # f[j]
        /\ \A i, j \in DOMAIN f : i < j =>
              capture_records[f[i]].created_at_utc <= capture_records[f[j]].created_at_utc}

\* [rec for rec in records if rec.asset_hash]
RECURSIVE WithAssetHash(_)
WithAssetHash(rows) ==
    IF rows = <<>> THEN <<>>
    ELSE IF Head(rows).asset_hash # <<>>
         THEN <<Head(rows)>> \o WithAssetHash(Tail(rows))
         ELSE WithAssetHash(Tail(rows))

\* index_entries.sort(key=sealed_at_utc): a stable sort
RECURSIVE SortBySealedAt(_)
SortBySealedAt(entries) ==
    IF Len(entries) <= 1 THEN entries
    ELSE LET e == entries[Len(entries)]
             sorted == SortBySealedAt(SubSeq(entries, 1, Len(entries) - 1))
             k == Cardinality({i \in DOMAIN sorted :
                                  sorted[i].sealed_at_utc <= e.sealed_at_utc})
         IN  SubSeq(sorted, 1, k) \o <<e>> \o SubSeq(sorted, k + 1, Len(sorted))

BatchPayload(l) ==
    [batch_id |-> l.batch_id,
     root_hash |-> l.root_hash,
     sealed_at_utc |-> l.sealed_at,
     record_count |-> Len(l.records),
     records |-> [i \in DOMAIN l.records |->
                    [record_id |-> l.records[i].record_id,
                     asset_hash |-> l.records[i].asset_hash,
                     device_id |-> l.records[i].device_id]],
     merkle_tree_levels |-> [k \in DOMAIN l.tree_levels |->
                               [i \in DOMAIN l.tree_levels[k] |->
                                   SHA256_PREFIX \o l.tree_levels[k][i]]]]

IndexEntry(l) ==
    [batch_id |-> l.batch_id, sealed_at_utc |-> l.sealed_at,
     root_hash |-> l.root_hash, record_count |-> Len(l.records),
     batch_file |-> <<"batches", l.sealed_at, l.batch_id>>]

CsvLine(l) == <<l.sealed_at, l.root_hash, l.batch_id, Len(l.records)>>

ProofEntry(l) ==
    [batch_id |-> l.batch_id, root_hash |-> l.root_hash,
     sealed_at_utc |-> l.sealed_at, record_count |-> Len(l.records),
     records |-> [i \in DOMAIN l.records |->
                    [record_id |-> l.records[i].record_id,
                     asset_hash |-> l.records[i].asset_hash]]]

\* _write_ledger_files stopped after `done` of its four files were written
\* (done = 4: it returned; done < 4: it raised at the next file)
_write_ledger_files(l, done) ==
    [batches |-> IF done >= 1 THEN ledger.batches \cup {BatchPayload(l)}
                 ELSE ledger.batches,
     index   |-> IF done >= 2
                 THEN SortBySealedAt(Append(ledger.index, IndexEntry(l)))
                 ELSE ledger.index,
     csv     |-> IF done >= 3 THEN Append(ledger.csv, CsvLine(l)) ELSE ledger.csv,
     proofs  |-> IF done >= 4 THEN Append(ledger.proofs, ProofEntry(l))
                 ELSE ledger.proofs]

IdleSealer ==
    [pc |-> "idle", outcome |-> "none", records |-> <<>>, batch_id |-> NoBatch,
     root_hash |-> NoRoot, sealed_at |-> NoTime, tree_levels |-> <<>>,
     commit_to_git |-> FALSE, push_to_git |-> FALSE]

\* main(), lines 248-251: the flags seal_pending_records is called with
\* (push_to_git implies commit_to_git)
GitFlags == {<<FALSE, FALSE>>, <<TRUE, FALSE>>, <<TRUE, TRUE>>}

\* the pass of process p has returned or raised: its locals are gone; what is
\* kept is how it ended and the batch id it had allocated
Finished(l, outcome) ==
    [IdleSealer EXCEPT !.outcome = outcome, !.batch_id = l.batch_id]

\* lines 184-201: select, filter, build the tree, allocate batch_id and sealed_at
SealSelect(p) ==
    /\ sealer[p].pc = "idle"
    /\ \E order \in SelectOrders, flags \in GitFlags :
         LET commit_to_git == flags[1]
             push_to_git == flags[2]
             rows == WithAssetHash([i \in DOMAIN order |-> capture_records[order[i]]])
             tree == build_merkle_tree([i \in DOMAIN rows |-> rows[i].asset_hash])
         IN  IF rows = <<>>
             THEN /\ sealer' = [sealer EXCEPT ![p] = [IdleSealer EXCEPT !.outcome = "no_pending"]]
                  /\ UNCHANGED next_batch
             ELSE IF ~tree.ok
             THEN /\ sealer' = [sealer EXCEPT ![p] = [IdleSealer EXCEPT !.outcome = "merkle_error"]]
                  /\ UNCHANGED next_batch
             ELSE /\ next_batch < MaxBatches
                  /\ next_batch' = next_batch + 1
                  /\ sealer' = [sealer EXCEPT ![p] =
                        [pc |-> "write", outcome |-> "none", records |-> rows,
                         batch_id |-> next_batch + 1, root_hash |-> tree.root,
                         sealed_at |-> now, tree_levels |-> tree.levels,
                         commit_to_git |-> commit_to_git, push_to_git |-> push_to_git]]
    /\ UNCHANGED <<apiVars, merkleVars, now, tokenVars, capture_records, lock_resp, ledger, commits>>

\* lines 204-210, 216-218: the artifacts are written, or the write raises and
\* the session is rolled back
SealWrite(p) ==
    /\ sealer[p].pc = "write"
    /\ \E done \in 0..4 :
         /\ ledger' = _write_ledger_files(sealer[p], done)
         /\ sealer' = [sealer EXCEPT ![p] =
                IF done = 4 THEN [@ EXCEPT !.pc = "commit"]
                ELSE Finished(@, "write_failed")]
    /\ UNCHANGED <<apiVars, merkleVars, now, tokenVars, capture_records, lock_resp, next_batch, commits>>

\* the UPDATE without its assignment to merkle_sealed_at_utc
SealedRowsNoTimestamp(l) ==
    LET ids == {l.records[i].record_id : i \in DOMAIN l.records}
    IN  [i \in DOMAIN capture_records |->
            IF capture_records[i].record_id \in ids
            THEN [capture_records[i] EXCEPT !.merkle_batch_id = l.batch_id,
                                            !.merkle_root_hash = l.root_hash]
            ELSE capture_records[i]]

\* lines 211-215: the UPDATE of every selected row, one per primary key
SealedRows(l) ==
    LET ids == {l.records[i].record_id : i \in DOMAIN l.records}
    IN  [i \in DOMAIN capture_records |->
            IF capture_records[i].record_id \in ids
            THEN [capture_records[i] EXCEPT !.merkle_batch_id = l.batch_id,
                                            !.merkle_root_hash = l.root_hash,
                                            !.merkle_sealed_at_utc = l.sealed_at]
            ELSE capture_records[i]]

\* lines 211-218: session.commit() returns, or raises and the session is rolled back
SealCommit(p) ==
    /\ sealer[p].pc = "commit"
    /\ \E committed \in BOOLEAN :
         IF committed
         THEN /\ capture_records' = SealedRows(sealer[p])
              /\ commits' = commits \cup {sealer[p].batch_id}
              /\ sealer' = [sealer EXCEPT ![p] =
                     IF sealer[p].commit_to_git THEN [@ EXCEPT !.pc = "git"]
                     ELSE Finished(@, "sealed")]
         ELSE /\ UNCHANGED <<capture_records, commits>>
              /\ sealer' = [sealer EXCEPT ![p] = Finished(@, "commit_failed")]
    /\ UNCHANGED <<apiVars, merkleVars, now, tokenVars, lock_resp, next_batch, ledger>>

\* a git step that undoes the UPDATE of the batch when it raises
SealGitUnseals(p) ==
    /\ sealer[p].pc = "git"
    /\ \E commit_ok \in BOOLEAN, push_ok \in BOOLEAN :
         LET failed == ~commit_ok \/ (sealer[p].push_to_git /\ ~push_ok)
         IN  /\ sealer' = [sealer EXCEPT ![p] =
                    IF ~commit_ok THEN Finished(@, "git_commit_failed")
                    ELSE IF failed THEN Finished(@, "git_push_failed")
                         ELSE Finished(@, "sealed")]
             /\ capture_records' =
                    IF failed
                    THEN [i \in DOMAIN capture_records |->
                            IF capture_records[i].merkle_batch_id = sealer[p].batch_id
                            THEN [capture_records[i] EXCEPT
                                     !.merkle_batch_id = NoBatch,
                                     !.merkle_root_hash = NoRoot,
                                     !.merkle_sealed_at_utc = NoTime]
                            ELSE capture_records[i]]
                    ELSE capture_records
    /\ UNCHANGED <<apiVars, merkleVars, now, tokenVars, lock_resp, next_batch, ledger, commits>>

\* lines 228-237: _git_commit, then _git_push when asked; either may raise
SealGit(p) ==
    /\ sealer[p].pc = "git"
    /\ \E commit_ok \in BOOLEAN, push_ok \in BOOLEAN :
         sealer' = [sealer EXCEPT ![p] =
            IF ~commit_ok THEN Finished(@, "git_commit_failed")
            ELSE IF sealer[p].push_to_git /\ ~push_ok
                 THEN Finished(@, "git_push_failed")
                 ELSE Finished(@, "sealed")]
    /\ UNCHANGED <<apiVars, merkleVars, now, tokenVars, capture_records, lock_resp,
                   next_batch, ledger, commits>>

seal_pending_records(p) ==
    SealSelect(p) \/ SealWrite(p) \/ SealCommit(p) \/ SealGit(p)

-----------------------------------------------------------------------------
(* main.py: POST /device/enroll, requests in flight at the same time *)

EnrollCalls == {"e1", "e2"}

\* a request that has not read yet, or has answered (resp is its answer)
IdleCall(resp) ==
    [pc |-> "idle", device_id |-> NoDevice, public_key |-> NoKey,
     current_token |-> NoToken, force |-> FALSE, existing |-> {},
     token |-> NoToken, issued_at |-> -1, resp |-> resp]

\* lines 140-159 with the values computed at lines 136-138
RowAt(d, public_key, token, issued_at) ==
    [device_id |-> d, token |-> token, public_key |-> public_key,
     issued_at |-> issued_at, expires_at |-> issued_at + device_token_ttl_seconds,
     force_renewal_required |-> FALSE]

\* lines 121-138: validation, db.get, the branch, and the new token
EnrollRead(c) ==
    /\ enroll_calls[c].pc = "idle"
    /\ \E d \in Devices, current_token \in {NoToken} \cup 1..next_token,
          force \in BOOLEAN :
         LET existing == RowsOf(d)
             branch == EnrollBranch(existing, current_token, force)
             answer(resp) ==
                 /\ enroll_calls' = [enroll_calls EXCEPT ![c] = IdleCall(resp)]
                 /\ UNCHANGED next_token
         IN  IF branch = "forbidden"
             THEN answer(EnrollError(d, 403, "current_token required and must match existing token"))
             ELSE IF branch = "reuse"
             THEN LET row == CHOOSE r \in existing : TRUE
                  IN  answer(EnrollResponse(d, row.token, row.issued_at, row.expires_at, "reused"))
             ELSE /\ next_token < MaxTokens
                  /\ next_token' = next_token + 1
                  /\ enroll_calls' = [enroll_calls EXCEPT ![c] =
                        [pc |-> "write", device_id |-> d, public_key |-> KeyA,
                         current_token |-> current_token, force |-> force,
                         existing |-> existing, token |-> next_token + 1,
                         issued_at |-> now, resp |-> EnrollError(NoDevice, 0, "none")]]
    /\ UNCHANGED <<merkleVars, now, device_tokens, enroll_resp, sealVars, clock, verifyVars,
                   settings, trusted_time,
      resp_headers>>

\* lines 140-162: the INSERT or the UPDATE by primary key, and db.commit().
\* The INSERT of a device_id that another request inserted meanwhile violates
\* the primary key: db.commit() raises and the request is answered 500.
EnrollWrite(c) ==
    /\ enroll_calls[c].pc = "write"
    /\ LET l == enroll_calls[c]
           stored == RowsOf(l.device_id)
           row == RowAt(l.device_id, l.public_key, l.token, l.issued_at)
       IN  IF l.existing = {} /\ stored # {}
           THEN /\ enroll_calls' = [enroll_calls EXCEPT ![c] =
                       IdleCall(EnrollError(l.device_id, 500, "IntegrityError"))]
                /\ UNCHANGED device_tokens
           ELSE /\ device_tokens' = (device_tokens \ stored) \cup {row}
                /\ enroll_calls' = [enroll_calls EXCEPT ![c] =
                       IdleCall(EnrollResponse(l.device_id, l.token, l.issued_at,
                                               row.expires_at, "issued"))]
    /\ UNCHANGED <<merkleVars, now, next_token, enroll_resp, sealVars, clock, verifyVars,
                   settings, trusted_time,
      resp_headers>>

-----------------------------------------------------------------------------
(* verification.py, time_sync.py: perform_verification *)

\* everything but the verifier's clock and tables
coreVars == <<merkleVars, now, tokenVars, sealVars, enroll_calls, settings, trusted_time,
      resp_headers>>

\* what the handlers of the verifier endpoints leave alone
endpointFrame ==
    <<merkleVars, now, tokenVars, sealVars, enroll_calls, settings, trusted_time, clock,
      ledger_entries, attestation_certs, crl_pass, ingest_result>>

\* None, or the empty string, in an optional hash or nonce
NoHash == ""

\* settings.replay_cache_ttl_seconds
replay_cache_ttl_seconds == 300

\* the lead of an entry's timestamp over the trusted clock that is tolerated
MaxTimestampLead == 120

\* trusted_time.now(): the clock (the NTP offset is taken as part of it)
trusted_now == clock

VerifyRaised(code, detail) ==
    [status |-> "raised", code |-> code, reason |-> detail, ledger_found |-> FALSE,
     signature_valid |-> FALSE, attestation_valid |-> FALSE, proof_level |-> "",
     content_hash |-> NoHash, entry_id |-> "", expires_at |-> -1]

VerifyFailureResponse(reason, ledger_found, signature_valid, attestation_valid) ==
    [status |-> "not_verified", code |-> 200, reason |-> reason,
     ledger_found |-> ledger_found, signature_valid |-> signature_valid,
     attestation_valid |-> attestation_valid, proof_level |-> "",
     content_hash |-> NoHash, entry_id |-> "", expires_at |-> -1]

VerifySuccessResponse(content_hash, entry, proof_level) ==
    [status |-> "verified", code |-> 200, reason |-> "", ledger_found |-> TRUE,
     signature_valid |-> TRUE, attestation_valid |-> TRUE, proof_level |-> proof_level,
     content_hash |-> content_hash, entry_id |-> entry.entry_id,
     expires_at |-> trusted_now + 300]

\* lines 65-67: the replay key, f"{client_nonce}:{content_hash}" or content_hash
ReplayKey(req) ==
    IF req.client_nonce # NoHash
    THEN <<req.client_nonce, ":", req.content_hash>>
    ELSE <<req.content_hash>>

\* LiveItems with an item still live at its expiry instant
LiveItemsInclusive == {c \in replay_cache : clock <= c.expires}

\* TTLCache: the items that have not expired (an item expires when the
\* clock reaches its insertion time plus the ttl)
LiveItems == {c \in replay_cache : clock < c.expires}

\* lines 93-106: the rows the first applicable select returns
\* lookup_ledger trying the manifest hash before the content hash
lookup_ledger_manifest_first(req) ==
    LET byContent == {e \in ledger_entries : e.content_hash = req.content_hash}
        byManifest == {e \in ledger_entries : e.manifest_hash = req.manifest_hash}
        bySignature == {e \in ledger_entries :
                           e.device_signature_hash = req.signature_hash}
    IN  IF req.manifest_hash # NoHash /\ byManifest # {} THEN byManifest
        ELSE IF byContent # {} THEN byContent
        ELSE IF req.signature_hash # NoHash THEN bySignature
        ELSE {}

lookup_ledger(req) ==
    LET byContent == {e \in ledger_entries : e.content_hash = req.content_hash}
        byManifest == {e \in ledger_entries : e.manifest_hash = req.manifest_hash}
        bySignature == {e \in ledger_entries :
                           e.device_signature_hash = req.signature_hash}
    IN  IF byContent # {} THEN byContent
        ELSE IF req.manifest_hash # NoHash /\ byManifest # {} THEN byManifest
        ELSE IF req.signature_hash # NoHash THEN bySignature
        ELSE {}

\* _verify_attestation that does not look at the revoked flag
verify_attestation_ignoring_revocation(req, entry) ==
    /\ req.attestation_cert_hash = entry.attestation_cert_hash
    /\ \E cert \in attestation_certs : cert.cert_hash = entry.attestation_cert_hash

_verify_attestation(req, entry) ==
    /\ req.attestation_cert_hash = entry.attestation_cert_hash
    /\ \E cert \in attestation_certs : cert.cert_hash = entry.attestation_cert_hash
    /\ \A cert \in attestation_certs :
          cert.cert_hash = entry.attestation_cert_hash => ~cert.revoked

_verify_signature(req, entry) ==
    IF entry.device_signature_hash # NoHash /\ req.signature_hash # NoHash
    THEN entry.device_signature_hash = req.signature_hash
    ELSE ~(entry.device_signature_hash # NoHash /\ req.signature_hash = NoHash)

_verify_manifest(req, entry) ==
    ~(req.manifest_hash # NoHash /\ entry.manifest_hash # NoHash
        /\ req.manifest_hash # entry.manifest_hash)

\* _verify_timestamp refusing a lead of exactly the tolerated 120 s
verify_timestamp_strict(entry) ==
    ~(entry.timestamp_utc - trusted_now >= MaxTimestampLead)

_verify_timestamp(entry) ==
    ~(entry.timestamp_utc - trusted_now > MaxTimestampLead)

\* lines 174-181 with the timestamp failure ranked above the signature failure
FailureReasonTimestampFirst(attestation_ok, signature_ok, manifest_ok, timestamp_ok) ==
    IF ~attestation_ok THEN "attestation_revoked"
    ELSE IF ~timestamp_ok THEN "timestamp_mismatch"
    ELSE IF ~signature_ok \/ ~manifest_ok THEN "signature_mismatch"
    ELSE "ledger_not_found"

\* lines 174-181 with signature_mismatch as the reason nothing replaces
FailureReasonSignatureDefault(attestation_ok, signature_ok, manifest_ok, timestamp_ok) ==
    IF ~attestation_ok THEN "attestation_revoked"
    ELSE IF signature_ok /\ manifest_ok /\ ~timestamp_ok THEN "timestamp_mismatch"
    ELSE "signature_mismatch"

\* lines 174-181: the reason of a failed verification
FailureReason(attestation_ok, signature_ok, manifest_ok, timestamp_ok) ==
    IF ~attestation_ok THEN "attestation_revoked"
    ELSE IF ~signature_ok \/ ~manifest_ok THEN "signature_mismatch"
    ELSE IF ~timestamp_ok THEN "timestamp_mismatch"
    ELSE "ledger_not_found"

\* lines 152-208: the verdict for a request that passed the replay guard
Verdict(req) ==
    LET found == lookup_ledger(req)
    IN  IF found = {}
        THEN VerifyFailureResponse("ledger_not_found", FALSE, FALSE, FALSE)
        ELSE IF Cardinality(found) > 1
        THEN VerifyRaised(500, "MultipleResultsFound")
        ELSE LET entry == CHOOSE e \in found : TRUE
                 ledger_match == entry.content_hash = req.content_hash
                 attestation_ok == _verify_attestation(req, entry)
                 signature_ok == _verify_signature(req, entry)
                 manifest_ok == _verify_manifest(req, entry)
                 timestamp_ok == _verify_timestamp(entry)
             IN  IF ~(ledger_match /\ attestation_ok /\ signature_ok
                        /\ manifest_ok /\ timestamp_ok)
                 THEN VerifyFailureResponse(
                          FailureReason(attestation_ok, signature_ok, manifest_ok, timestamp_ok),
                          TRUE, signature_ok /\ manifest_ok, attestation_ok)
                 ELSE VerifySuccessResponse(req.content_hash, entry,
                          IF entry.proof_level \in {"basic", "attested", "rooted"}
                          THEN entry.proof_level ELSE "basic")

\* line 69: digest in REPLAY_CACHE
ReplayDetected(req) == \E c \in LiveItems : c.key = ReplayKey(req)

\* line 71: REPLAY_CACHE[digest] = True (TTLCache drops the expired items
\* when it stores one)
StoreReplayKey(req) ==
    {c \in LiveItems : c.key # ReplayKey(req)} \cup
        {[key |-> ReplayKey(req), expires |-> clock + replay_cache_ttl_seconds]}

-----------------------------------------------------------------------------
(* verification.py: ensure_payload_safe, validate_manifest_summary *)

MAX_STRING_LENGTH == 512
manifest_summary_max_bytes == 4096

\* decoded JSON: null, numbers, strings (sequences of characters), arrays and
\* objects (sequences of <<key, value>>), and bytes, which no JSON holds but
\* model_dump may; "hex" is a string that the schema has matched against
\* ^[0-9a-f]{64}$ and "short" one it has limited to 128 characters
JNull == [type |-> "null", text |-> <<>>, items |-> <<>>]
JNum(digits) == [type |-> "num", text |-> digits, items |-> <<>>]
JStr(text) == [type |-> "str", text |-> text, items |-> <<>>]
JBytes == [type |-> "bytes", text |-> <<>>, items |-> <<>>]
JList(items) == [type |-> "list", text |-> <<>>, items |-> items]
JDict(items) == [type |-> "dict", text |-> <<>>, items |-> items]
JHex(hash) == IF hash = "" THEN JNull ELSE [type |-> "hex", text |-> <<>>, items |-> <<>>]
JShort(value) == IF value = "" THEN JNull ELSE [type |-> "short", text |-> <<>>, items |-> <<>>]

SUSPICIOUS_KEYS ==
    {<<"m", "e", "d", "i", "a">>,
     <<"f", "i", "l", "e">>,
     <<"b", "i", "n", "a", "r", "y">>,
     <<"p", "a", "y", "l", "o", "a", "d">>,
     <<"i", "m", "a", "g", "e">>,
     <<"v", "i", "d", "e", "o">>,
     <<"a", "u", "d", "i", "o">>,
     <<"b", "l", "o", "b">>}

allowed_manifest_summary_fields ==
    {<<"t", "i", "t", "l", "e">>,
     <<"c", "r", "e", "a", "t", "o", "r">>,
     <<"c", "a", "p", "t", "u", "r", "e", "_", "t", "i", "m", "e", "_", "u", "t", "c">>,
     <<"d", "e", "s", "c", "r", "i", "p", "t", "i", "o", "n">>}

KeyManifestSummary == <<"m", "a", "n", "i", "f", "e", "s", "t", "_", "s", "u", "m", "m", "a", "r", "y">>

\* sub in s
Contains(sub, s) ==
    \E i \in 1..(Len(s) - Len(sub) + 1) :
        \A j \in 1..Len(sub) : s[i + j - 1] = sub[j]

MarkerDataImage == <<"d", "a", "t", "a", ":", "i", "m", "a", "g", "e">>
MarkerBase64 == <<"b", "a", "s", "e", "6", "4", ",">>

\* lines 45-46: the string holds a media marker
HoldsMarker(text) ==
    Contains(MarkerDataImage, Lower(text)) \/ Contains(MarkerBase64, Lower(text))

\* lines 39-48: the check of one key and its value, "" when it passes
ItemCheck(key, value) ==
    IF Lower(key) \in SUSPICIOUS_KEYS THEN "media_payload_not_allowed"
    ELSE IF value.type = "bytes" THEN "binary_payload_not_allowed"
    ELSE IF value.type = "str" /\ HoldsMarker(value.text)
    THEN "media_payload_not_allowed"
    ELSE IF value.type = "str" /\ Len(value.text) > MAX_STRING_LENGTH
            /\ Lower(key) # KeyManifestSummary
    THEN "unexpected_field_size"
    ELSE ""

\* lines 37-50: the detail ensure_payload_safe raises 400 with, from the
\* i-th item of the object on, "" when it returns
RECURSIVE Hygiene(_, _)
Hygiene(payload_dict, i) ==
    IF i > Len(payload_dict.items) THEN ""
    ELSE LET key == payload_dict.items[i][1]
             value == payload_dict.items[i][2]
             here == ItemCheck(key, value)
             below == IF value.type = "dict" THEN Hygiene(value, 1) ELSE ""
         IN  IF here # "" THEN here
             ELSE IF below # "" THEN below
             ELSE Hygiene(payload_dict, i + 1)

ensure_payload_safe(payload_dict) == Hygiene(payload_dict, 1)

\* len(orjson.dumps(value)) for values of ASCII text without escapes
RECURSIVE EncodedSize(_)
RECURSIVE EncodedItems(_, _)
EncodedItems(value, i) ==
    IF i > Len(value.items) THEN 0
    ELSE (IF i > 1 THEN 1 ELSE 0)
         + (IF value.type = "dict"
            THEN Len(value.items[i][1]) + 3 + EncodedSize(value.items[i][2])
            ELSE EncodedSize(value.items[i]))
         + EncodedItems(value, i + 1)

EncodedSize(value) ==
    IF value.type = "null" THEN 4
    ELSE IF value.type = "num" THEN Len(value.text)
    ELSE IF value.type = "str" THEN Len(value.text) + 2
    ELSE 2 + EncodedItems(value, 1)

SummaryKeys(summary) == {summary.items[i][1] : i \in 1..Len(summary.items)}

\* validate_manifest_summary accepting only summaries below the cap
validate_manifest_summary_below_cap(summary, allow_summary) ==
    IF summary = JNull THEN ""
    ELSE IF ~allow_summary THEN "manifest_summary_not_allowed"
    ELSE IF SummaryKeys(summary) \ allowed_manifest_summary_fields # {}
    THEN "manifest_summary_contains_disallowed_fields"
    ELSE IF EncodedSize(summary) >= manifest_summary_max_bytes
    THEN "manifest_summary_too_large"
    ELSE ""

\* lines 52-62: the detail validate_manifest_summary raises 400 with, ""
\* when it returns
validate_manifest_summary(summary, allow_summary) ==
    IF summary = JNull THEN ""
    ELSE IF ~allow_summary THEN "manifest_summary_not_allowed"
    ELSE IF SummaryKeys(summary) \ allowed_manifest_summary_fields # {}
    THEN "manifest_summary_contains_disallowed_fields"
    ELSE IF EncodedSize(summary) > manifest_summary_max_bytes
    THEN "manifest_summary_too_large"
    ELSE ""

\* payload.model_dump()
model_dump(req) ==
    JDict(<< <<<<"c", "o", "n", "t", "e", "n", "t", "_", "h", "a", "s", "h">>, JHex(req.content_hash)>>,
             <<<<"m", "a", "n", "i", "f", "e", "s", "t", "_", "h", "a", "s", "h">>, JHex(req.manifest_hash)>>,
             <<<<"a", "t", "t", "e", "s", "t", "a", "t", "i", "o", "n", "_", "c", "e", "r", "t", "_", "h", "a", "s", "h">>, JHex(req.attestation_cert_hash)>>,
             <<<<"s", "i", "g", "n", "a", "t", "u", "r", "e", "_", "h", "a", "s", "h">>, JHex(req.signature_hash)>>,
             <<KeyManifestSummary, req.manifest_summary>>,
             <<<<"c", "l", "i", "e", "n", "t", "_", "n", "o", "n", "c", "e">>, JShort(req.client_nonce)>>,
             <<<<"c", "l", "i", "e", "n", "t", "_", "v", "e", "r", "s", "i", "o", "n">>, JNull>> >>)

-----------------------------------------------------------------------------
(* verification.py: perform_verification, lines 147-208 *)

\* perform_verification with the replay guard before the hygiene and the
\* manifest-summary checks
perform_verification_guard_first(req, allow_manifest_summary) ==
    LET unsafe == ensure_payload_safe(model_dump(req))
        invalid == validate_manifest_summary(req.manifest_summary, allow_manifest_summary)
    IN
    IF ReplayDetected(req)
    THEN /\ verify_resp' = VerifyRaised(429, "replay_detected")
         /\ UNCHANGED replay_cache
    ELSE /\ replay_cache' = StoreReplayKey(req)
         /\ verify_resp' = IF unsafe # "" THEN VerifyRaised(400, unsafe)
                           ELSE IF invalid # "" THEN VerifyRaised(400, invalid)
                           ELSE Verdict(req)

perform_verification(req, allow_manifest_summary) ==
    LET unsafe == ensure_payload_safe(model_dump(req))
        invalid == validate_manifest_summary(req.manifest_summary, allow_manifest_summary)
    IN
    IF unsafe # ""
    THEN /\ verify_resp' = VerifyRaised(400, unsafe)
         /\ UNCHANGED replay_cache
    ELSE IF invalid # ""
    THEN /\ verify_resp' = VerifyRaised(400, invalid)
         /\ UNCHANGED replay_cache
    ELSE IF ReplayDetected(req)
    THEN /\ verify_resp' = VerifyRaised(429, "replay_detected")
         /\ UNCHANGED replay_cache
    ELSE /\ replay_cache' = StoreReplayKey(req)
         /\ verify_resp' = Verdict(req)

VerifyRequest(content_hash, manifest_hash, attestation_cert_hash, signature_hash, client_nonce) ==
    [content_hash |-> content_hash, manifest_hash |-> manifest_hash,
     attestation_cert_hash |-> attestation_cert_hash,
     signature_hash |-> signature_hash, client_nonce |-> client_nonce,
     manifest_summary |-> JNull]

\* the same request with a manifest_summary
WithSummary(req, summary) == [req EXCEPT !.manifest_summary = summary]

Verify(requests) ==
    \E req \in requests :
        /\ perform_verification(req, settings.allow_manifest_summary)
        /\ UNCHANGED <<coreVars, clock, ledger_entries, attestation_certs, crl_pass,
                       ingest_result, rate_cache>>

\* the verifier's clock advances to a later one of the instants observed
Tick(instants) ==
    /\ \E t \in instants : t > clock /\ clock' = t
    /\ UNCHANGED <<coreVars, verifyVars>>

-----------------------------------------------------------------------------
(* attestation.py: ingest_certificate; crl.py: refresh_crls *)

\* a PEM file: its text and what load_certificate and the digest of its DER
\* give (lines 47-52)
Pem(cert_hash, serial_number, crl_urls) ==
    [cert_hash |-> cert_hash, serial_number |-> serial_number, crl_urls |-> crl_urls,
     issuer |-> "CN=root", text |-> "pem"]

\* the same certificate in another PEM text
Reformatted(pem) == [pem EXCEPT !.text = "pem-crlf"]

\* metadata: None, the empty dict, and dicts with entries
NoMetadata == "None"
EmptyMetadata == "{}"

\* json.dumps(metadata), and the null of the column
json_dumps(metadata) == <<"json", metadata>>
NullJson == <<>>

\* a row of attestation_certificates (models.py) with the columns other than
\* these five empty and created at instant 0
AttestationCertificate(cert_hash, serial_number, revoked, revoked_at, crl_urls) ==
    [cert_hash |-> cert_hash, serial_number |-> serial_number,
     revoked |-> revoked, revoked_at |-> revoked_at, crl_urls |-> crl_urls,
     pem |-> "", issuer |-> "", metadata_json |-> NullJson,
     revocation_reason |-> "", created_at_utc |-> 0, last_checked_at |-> NoTime]

\* lines 57 and 67: metadata is stored when it is truthy
Truthy(metadata) == metadata \notin {NoMetadata, EmptyMetadata}

\* attestation.py lines 55-62 clearing the revocation of the row it rewrites
ReingestedRowResetsRevoked(row, pem, metadata) ==
    [row EXCEPT !.pem = pem.text,
                !.metadata_json = IF Truthy(metadata) THEN json_dumps(metadata) ELSE @,
                !.serial_number = pem.serial_number,
                !.issuer = pem.issuer,
                !.revoked = FALSE,
                !.crl_urls = IF pem.crl_urls # {} THEN pem.crl_urls ELSE @]

\* attestation.py lines 55-62: the existing row, rewritten
ReingestedRow(row, pem, metadata) ==
    [row EXCEPT !.pem = pem.text,
                !.metadata_json = IF Truthy(metadata) THEN json_dumps(metadata) ELSE @,
                !.serial_number = pem.serial_number,
                !.issuer = pem.issuer,
                !.crl_urls = IF pem.crl_urls # {} THEN pem.crl_urls ELSE @]

\* attestation.py lines 64-73: the row of a certificate not stored yet
NewRow(pem, metadata) ==
    [AttestationCertificate(pem.cert_hash, pem.serial_number, FALSE, NoTime, pem.crl_urls)
     EXCEPT !.pem = pem.text,
            !.metadata_json = IF Truthy(metadata) THEN json_dumps(metadata) ELSE NullJson,
            !.issuer = pem.issuer,
            !.created_at_utc = clock]

\* no certificate returned by ingest_certificate yet
NoCertificate == AttestationCertificate("", "", FALSE, NoTime, {})

\* ingest_certificate adding a row whether or not the certificate is stored
ingest_certificate_inserting(pem, metadata) ==
    /\ attestation_certs' = attestation_certs \cup {NewRow(pem, metadata)}
    /\ ingest_result' = NewRow(pem, metadata)

\* ingest_certificate, the row it returns, and the commit of its caller
ingest_certificate(pem, metadata) ==
    LET existing == {c \in attestation_certs : c.cert_hash = pem.cert_hash}
    IN  IF existing # {}
        THEN /\ attestation_certs' = (attestation_certs \ existing) \cup
                    {ReingestedRow(row, pem, metadata) : row \in existing}
             /\ ingest_result' = ReingestedRow(CHOOSE row \in existing : TRUE, pem, metadata)
        ELSE /\ attestation_certs' = attestation_certs \cup {NewRow(pem, metadata)}
             /\ ingest_result' = NewRow(pem, metadata)

IngestWith(pems, metadatas) ==
    \E pem \in pems, metadata \in metadatas :
        /\ ingest_certificate(pem, metadata)
        /\ UNCHANGED <<coreVars, clock, ledger_entries, replay_cache, verify_resp, crl_pass,
                       rate_cache>>

\* ingest_certificate without metadata
Ingest(pems) == IngestWith(pems, {NoMetadata})

CrlUrls == {"u1"}
Serials == {"1A", "2B"}

\* the issuer of the stored certificates and another issuer
Issuers == {"CN=root", "CN=other"}

\* _fetch and _load_crl of one URL: the CRL's issuer and the serials it
\* lists, or a failure
FetchResults == [ok : BOOLEAN, serials : SUBSET Serials, issuer : Issuers]

\* no refresh_crls pass in progress (crls: the CRLs the loop of lines 58-67
\* has read, with the URL each came from)
IdleCrlPass ==
    [pc |-> "idle", outcome |-> "none", revoked_serials |-> {}, checked |-> 0,
     revoked |-> 0, crls |-> {}]

\* the pass has returned or raised
CrlFinished(outcome, checked, revoked) ==
    [IdleCrlPass EXCEPT !.outcome = outcome, !.checked = checked, !.revoked = revoked]

\* crl.py lines 51-71.  _collect_urls reads settings.crl_sources and _fetch
\* reads settings.crl_request_timeout_seconds, which Settings (config.py)
\* does not declare: the pass raises AttributeError unless both functions are
\* supplied by the caller's environment (collected = FALSE is the pass that
\* raises; sources are the URLs an environment configures)
RefreshFetch ==
    /\ crl_pass.pc = "idle"
    /\ \E collected \in BOOLEAN, sources \in SUBSET CrlUrls,
          fetched \in [CrlUrls -> FetchResults] :
         LET urls == sources \cup UNION {c.crl_urls : c \in attestation_certs}
             read == {u \in urls : fetched[u].ok}
             revoked_serials == UNION {fetched[u].serials : u \in read}
         IN  crl_pass' =
                IF ~collected THEN CrlFinished("raised", 0, 0)
                ELSE IF urls = {} THEN CrlFinished("no_urls", 0, 0)
                ELSE IF revoked_serials = {}
                     THEN CrlFinished("nothing_listed", Cardinality(read), 0)
                     ELSE [pc |-> "mark", outcome |-> "none",
                           revoked_serials |-> revoked_serials,
                           checked |-> Cardinality(read), revoked |-> 0,
                           crls |-> {[url |-> u, issuer |-> fetched[u].issuer,
                                      serials |-> fetched[u].serials] : u \in read}]
    /\ UNCHANGED <<coreVars, clock, ledger_entries, attestation_certs, replay_cache,
                   verify_resp, ingest_result, rate_cache>>

\* MarkedRows marking every stored certificate once any serial is listed
MarkedRowsWhenAnyListed(revoked_serials) ==
    {IF c.revoked
     THEN [c EXCEPT !.last_checked_at = clock]
     ELSE [c EXCEPT !.revoked = TRUE, !.revoked_at = clock,
                    !.revocation_reason = "crl_revoked", !.last_checked_at = clock]
     : c \in attestation_certs}

\* crl.py lines 73-84: the rows after the loop over the listed certificates
MarkedRows(revoked_serials) ==
    {IF c.serial_number \in revoked_serials
     THEN IF c.revoked
          THEN [c EXCEPT !.last_checked_at = clock]
          ELSE [c EXCEPT !.revoked = TRUE, !.revoked_at = clock,
                         !.revocation_reason = "crl_revoked", !.last_checked_at = clock]
     ELSE c : c \in attestation_certs}

\* crl.py lines 73-88: select the listed certificates, mark them, commit
RefreshMark ==
    /\ crl_pass.pc = "mark"
    /\ attestation_certs' = MarkedRows(crl_pass.revoked_serials)
    /\ crl_pass' = [CrlFinished("done", crl_pass.checked,
                        Cardinality({c \in attestation_certs :
                            c.serial_number \in crl_pass.revoked_serials /\ ~c.revoked}))
                    EXCEPT !.revoked_serials = crl_pass.revoked_serials]
    /\ UNCHANGED <<coreVars, clock, ledger_entries, replay_cache, verify_resp,
                   ingest_result, rate_cache>>

refresh_crls == RefreshFetch \/ RefreshMark

-----------------------------------------------------------------------------
(* auth.py: authenticate_request; rate_limit.py: RateLimiter; main.py: POST /api/v1/verify *)

AUTH_WINDOW_SECONDS == 300
window_seconds == 60

\* the largest per-minute limit of an identity
MaxLimit == 2

\* settings: the limits of anonymous clients and of keys without a limit of
\* their own, and the API keys with their records: k1 sets a limit and no
\* allow_manifest_summary, k2 sets allow_manifest_summary and no limit, k3
\* sets both
anonymous_rate_limit_per_minute == MaxLimit
authenticated_rate_limit_per_minute == MaxLimit + 2
verifier_api_keys == {"k1", "k2", "k3"}

\* a key's record; rate_limit_per_minute 0 stands for None as well, has_allow
\* says that the record has the key allow_manifest_summary
KeyRecord(api_key) ==
    IF api_key = "k1"
    THEN [hmac_secret |-> "s1", rate_limit_per_minute |-> MaxLimit + 1,
          has_allow |-> FALSE, allow_manifest_summary |-> FALSE]
    ELSE IF api_key = "k2"
    THEN [hmac_secret |-> "s2", rate_limit_per_minute |-> 0,
          has_allow |-> TRUE, allow_manifest_summary |-> TRUE]
    ELSE [hmac_secret |-> "s3", rate_limit_per_minute |-> 1,
          has_allow |-> TRUE, allow_manifest_summary |-> FALSE]

hmac_secret(api_key) == KeyRecord(api_key).hmac_secret

\* auth.py line 60
rate_limit_per_minute(api_key) ==
    IF KeyRecord(api_key).rate_limit_per_minute # 0
    THEN KeyRecord(api_key).rate_limit_per_minute
    ELSE authenticated_rate_limit_per_minute

\* auth.py line 61: bool(key_record.get("allow_manifest_summary"))
key_allow_manifest_summary(api_key) ==
    KeyRecord(api_key).has_allow /\ KeyRecord(api_key).allow_manifest_summary

\* config.py line 29
DefaultSettings == [allow_manifest_summary |-> FALSE]

Abs(n) == IF n < 0 THEN -n ELSE n

_now_epoch == clock

\* hmac.new(secret, f"{timestamp}:{content_hash}", sha256).hexdigest()
HmacHex(secret, timestamp, content_hash) == <<"hmac", secret, timestamp, content_hash>>

\* the headers of a request: "" is a header that is not sent, and the
\* timestamp header is absent, not a number, or a number
Headers(scheme, host, api_key, timestamp, signature) ==
    [scheme |-> scheme, host |-> host, api_key |-> api_key, timestamp |-> timestamp,
     signature |-> signature, request_id |-> ""]

\* the same headers with an X-Request-ID
WithRequestId(headers, request_id) ==
    [scheme |-> headers.scheme, host |-> headers.host, api_key |-> headers.api_key,
     timestamp |-> headers.timestamp, signature |-> headers.signature,
     request_id |-> request_id]

NoTimestamp == [kind |-> "absent", value |-> 0]
TextTimestamp == [kind |-> "text", value |-> 0]
IntTimestamp(n) == [kind |-> "int", value |-> n]
NoSignature == <<>>

\* HTTPException(401, detail)
AuthRaised(detail) ==
    [raised |-> TRUE, code |-> 401, detail |-> detail, api_key |-> "",
     authenticated |-> FALSE, rate_limit |-> 0, allow_manifest_summary |-> FALSE]

ClientIdentity(api_key, authenticated, rate_limit, allow_manifest_summary) ==
    [raised |-> FALSE, code |-> 0, detail |-> "", api_key |-> api_key,
     authenticated |-> authenticated, rate_limit |-> rate_limit,
     allow_manifest_summary |-> allow_manifest_summary]

\* auth.py lines 28-35
AnonymousIdentity ==
    ClientIdentity("", FALSE, anonymous_rate_limit_per_minute,
                   settings.allow_manifest_summary)

\* auth.py line 51 raising at the edge of the window as well
timestamp_out_of_window_at_edge(timestamp) ==
    Abs(_now_epoch - timestamp) >= AUTH_WINDOW_SECONDS

\* auth.py line 51
timestamp_out_of_window(timestamp) ==
    Abs(_now_epoch - timestamp) > AUTH_WINDOW_SECONDS

\* auth.py lines 26-69 comparing the signature before the window check
authenticate_request_signature_first(headers, payload_content_hash) ==
    IF headers.api_key = ""
    THEN AnonymousIdentity
    ELSE IF headers.api_key \notin verifier_api_keys
    THEN AuthRaised("invalid_api_key")
    ELSE IF headers.timestamp.kind = "absent" \/ headers.signature = NoSignature
    THEN AuthRaised("missing_hmac_headers")
    ELSE IF headers.timestamp.kind = "text"
    THEN AuthRaised("invalid_timestamp")
    ELSE IF headers.signature # HmacHex(hmac_secret(headers.api_key),
                                        headers.timestamp.value, payload_content_hash)
    THEN AuthRaised("invalid_signature")
    ELSE IF timestamp_out_of_window(headers.timestamp.value)
    THEN AuthRaised("timestamp_out_of_window")
    ELSE ClientIdentity(headers.api_key, TRUE, rate_limit_per_minute(headers.api_key),
                        key_allow_manifest_summary(headers.api_key))

\* auth.py lines 26-69
authenticate_request(headers, payload_content_hash) ==
    IF headers.api_key = ""
    THEN AnonymousIdentity
    ELSE IF headers.api_key \notin verifier_api_keys
    THEN AuthRaised("invalid_api_key")
    ELSE IF headers.timestamp.kind = "absent" \/ headers.signature = NoSignature
    THEN AuthRaised("missing_hmac_headers")
    ELSE IF headers.timestamp.kind = "text"
    THEN AuthRaised("invalid_timestamp")
    ELSE IF timestamp_out_of_window(headers.timestamp.value)
    THEN AuthRaised("timestamp_out_of_window")
    ELSE IF headers.signature # HmacHex(hmac_secret(headers.api_key),
                                        headers.timestamp.value, payload_content_hash)
    THEN AuthRaised("invalid_signature")
    ELSE ClientIdentity(headers.api_key, TRUE, rate_limit_per_minute(headers.api_key),
                        key_allow_manifest_summary(headers.api_key))

\* the items of the limiter's TTLCache that have not expired
LiveHits == {c \in rate_cache : clock < c.expires}

\* rate_limit.py line 19: self.cache.get(key, (0, now))
StoredHits(key) ==
    LET live == {c \in LiveHits : c.key = key}
    IN  IF live = {}
        THEN [hits |-> 0, window_start |-> clock]
        ELSE LET c == CHOOSE c \in live : TRUE
             IN  [hits |-> c.hits, window_start |-> c.window_start]

\* rate_limit.py lines 20-22 restarting a window after half of window_seconds
CurrentWindowHalved(key) ==
    LET stored == StoredHits(key)
    IN  IF 2 * (clock - stored.window_start) >= window_seconds
        THEN [hits |-> 0, window_start |-> clock]
        ELSE stored

\* rate_limit.py lines 20-22 restarting only a window that has lasted longer
\* than window_seconds
CurrentWindowPastEdge(key) ==
    LET stored == StoredHits(key)
    IN  IF clock - stored.window_start > window_seconds
        THEN [hits |-> 0, window_start |-> clock]
        ELSE stored

\* rate_limit.py lines 20-22: a window that has lasted window_seconds restarts
CurrentWindow(key) ==
    LET stored == StoredHits(key)
    IN  IF clock - stored.window_start >= window_seconds
        THEN [hits |-> 0, window_start |-> clock]
        ELSE stored

\* rate_limit.py line 23 denying only above the limit
HitAllowedAtLimit(key, limit) == ~(CurrentWindow(key).hits > limit)

\* rate_limit.py line 23: the value hit returns
HitAllowed(key, limit) == ~(CurrentWindow(key).hits >= limit)

\* history: the instants, less than window_seconds ago, at which hit returned
\* True for the key (the cache does not hold them; they are kept with the
\* key's item for the statements about intervals that are not windows)
RecentAllowed(key) ==
    LET items == {c \in rate_cache : c.key = key}
        before == IF items = {} THEN <<>> ELSE (CHOOSE c \in items : TRUE).allowed
    IN  SelectSeq(before, LAMBDA t : clock - t < window_seconds)

\* rate_limit.py lines 24 and 27: the cache after the call has stored the
\* pair, which restarts the item's time to live
StoreHits(key, limit) ==
    LET window == CurrentWindow(key)
        hits == IF HitAllowed(key, limit) THEN window.hits + 1 ELSE window.hits
    IN  {c \in LiveHits : c.key # key} \cup
            {[key |-> key, hits |-> hits, window_start |-> window.window_start,
              expires |-> clock + window_seconds,
              allowed |-> IF HitAllowed(key, limit)
                          THEN Append(RecentAllowed(key), clock)
                          ELSE RecentAllowed(key)]}

\* main.py lines 79-80
RateKey(headers, identity) ==
    IF identity.api_key # "" THEN <<identity.api_key>> ELSE <<"ip:", headers.host>>

\* main.py lines 62-69 with tls_required set
_require_tls(headers) == headers.scheme = "https"

\* a response that carries neither Cache-Control nor X-Request-ID
NoHeaders == [cache_control |-> "", request_id |-> ""]

\* main.py lines 71-72
_request_id(headers) == IF headers.request_id # "" THEN headers.request_id ELSE "uuid4"

\* main.py lines 74-76
_apply_response_headers(request_id) ==
    [cache_control |-> "private, max-age=30", request_id |-> request_id]

\* the headers of the response: those of the JSONResponse the handler
\* returns, and none of the two on the response made from an HTTPException
ResponseHeaders(headers, resp) ==
    IF resp.status = "raised" THEN NoHeaders
    ELSE _apply_response_headers(_request_id(headers))

\* main.py lines 253-261
verify_artifact_body(headers, payload) ==
    IF ~_require_tls(headers)
    THEN /\ verify_resp' = VerifyRaised(400, "tls_required")
         /\ UNCHANGED <<rate_cache, replay_cache>>
    ELSE LET identity == authenticate_request(headers, payload.content_hash)
         IN  IF identity.raised
             THEN /\ verify_resp' = VerifyRaised(identity.code, identity.detail)
                  /\ UNCHANGED <<rate_cache, replay_cache>>
             ELSE LET key == RateKey(headers, identity)
                  IN  /\ rate_cache' = StoreHits(key, identity.rate_limit)
                      /\ IF ~HitAllowed(key, identity.rate_limit)
                         THEN /\ verify_resp' = VerifyRaised(429, "rate_limited")
                              /\ UNCHANGED replay_cache
                         ELSE perform_verification(payload,
                                                   identity.allow_manifest_summary)

verify_artifact(headers, payload) ==
    /\ verify_artifact_body(headers, payload)
    /\ resp_headers' = ResponseHeaders(headers, verify_resp')

VerifyArtifact(requests) ==
    \E call \in requests :
        /\ verify_artifact(call.headers, call.payload)
        /\ UNCHANGED endpointFrame

\* verification.py lines 210-214: perform_ledger_lookup
LedgerLookupResponse(entry) ==
    [status |-> "ok", code |-> 200, reason |-> "", ledger_entry |-> entry]

perform_ledger_lookup(req) ==
    LET found == lookup_ledger(req)
    IN  IF found = {} THEN VerifyRaised(404, "ledger_not_found")
        ELSE IF Cardinality(found) > 1 THEN VerifyRaised(500, "MultipleResultsFound")
        ELSE LedgerLookupResponse(CHOOSE e \in found : TRUE)

\* main.py lines 267-277 without the check of identity.authenticated
ledger_lookup_for_anyone(headers, payload) ==
    /\ UNCHANGED replay_cache
    /\ IF ~_require_tls(headers)
       THEN /\ verify_resp' = VerifyRaised(400, "tls_required")
            /\ UNCHANGED rate_cache
       ELSE LET identity == authenticate_request(headers, payload.content_hash)
            IN  IF identity.raised
                THEN /\ verify_resp' = VerifyRaised(identity.code, identity.detail)
                     /\ UNCHANGED rate_cache
                ELSE LET key == RateKey(headers, identity)
                     IN  /\ rate_cache' = StoreHits(key, identity.rate_limit)
                         /\ verify_resp' =
                                IF ~HitAllowed(key, identity.rate_limit)
                                THEN VerifyRaised(429, "rate_limited")
                                ELSE perform_ledger_lookup(payload)
    /\ resp_headers' = ResponseHeaders(headers, verify_resp')

\* main.py lines 267-277: POST /api/v1/ledger/lookup
ledger_lookup(headers, payload) ==
    /\ UNCHANGED replay_cache
    /\ IF ~_require_tls(headers)
       THEN /\ verify_resp' = VerifyRaised(400, "tls_required")
            /\ UNCHANGED rate_cache
       ELSE LET identity == authenticate_request(headers, payload.content_hash)
            IN  IF identity.raised
                THEN /\ verify_resp' = VerifyRaised(identity.code, identity.detail)
                     /\ UNCHANGED rate_cache
                ELSE IF ~identity.authenticated
                THEN /\ verify_resp' = VerifyRaised(401, "api_key_required")
                     /\ UNCHANGED rate_cache
                ELSE LET key == RateKey(headers, identity)
                     IN  /\ rate_cache' = StoreHits(key, identity.rate_limit)
                         /\ verify_resp' =
                                IF ~HitAllowed(key, identity.rate_limit)
                                THEN VerifyRaised(429, "rate_limited")
                                ELSE perform_ledger_lookup(payload)
    /\ resp_headers' = ResponseHeaders(headers, verify_resp')

LedgerLookup(requests) ==
    \E call \in requests :
        /\ ledger_lookup(call.headers, call.payload)
        /\ UNCHANGED endpointFrame

\* orjson.loads of a metadata_json column (None when it is null)
orjson_loads(metadata_json) ==
    IF metadata_json = NullJson THEN NoMetadata ELSE metadata_json[2]

\* main.py lines 294-300: the body of the certificate response
CertificateResponse(cert, include_pem) ==
    [status |-> "ok", code |-> 200, reason |-> "", cert_hash |-> cert.cert_hash,
     revoked |-> cert.revoked, revocation_reason |-> cert.revocation_reason,
     metadata |-> orjson_loads(cert.metadata_json),
     pem |-> IF include_pem THEN cert.pem ELSE ""]

\* main.py lines 279-305: GET /api/v1/certs/{cert_hash}
get_certificate(headers, cert_hash) ==
    /\ UNCHANGED replay_cache
    /\ IF ~_require_tls(headers)
       THEN /\ verify_resp' = VerifyRaised(400, "tls_required")
            /\ UNCHANGED rate_cache
       ELSE LET identity == authenticate_request(headers, NoHash)
            IN  IF identity.raised
                THEN /\ verify_resp' = VerifyRaised(identity.code, identity.detail)
                     /\ UNCHANGED rate_cache
                ELSE LET key == RateKey(headers, identity)
                         cert == {c \in attestation_certs : c.cert_hash = cert_hash}
                     IN  /\ rate_cache' = StoreHits(key, identity.rate_limit)
                         /\ verify_resp' =
                                IF ~HitAllowed(key, identity.rate_limit)
                                THEN VerifyRaised(429, "rate_limited")
                                ELSE IF cert = {} THEN VerifyRaised(404, "cert_not_found")
                                ELSE CertificateResponse(CHOOSE c \in cert : TRUE,
                                                         identity.authenticated)
    /\ resp_headers' = ResponseHeaders(headers, verify_resp')

GetCertificate(requests) ==
    \E call \in requests :
        /\ get_certificate(call.headers, call.cert_hash)
        /\ UNCHANGED endpointFrame

-----------------------------------------------------------------------------
(* Specifications *)

\* the instants the token service is observed at: for a token issued at
\* instant 0, the last instant outside the renewal buffer (22), the first
\* inside it (23, where expires_at - now = buffer) and the expiry (30)
EnrolInstants == {0, 22, 23, 30}
SealInstants == {0, 1}

NoEnrollResp == EnrollError(NoDevice, 0, "none")
NoLockResp == LockError(0, "none")

EmptyLedger == [batches |-> {}, index |-> <<>>, csv |-> <<>>, proofs |-> <<>>]

TokensEmpty ==
    /\ device_tokens = {}
    /\ next_token = 0
    /\ enroll_resp = NoEnrollResp

\* the token table after device d1 has enrolled at instant 0
TokensEnrolled ==
    /\ device_tokens = {[device_id |-> "d1", token |-> 1, public_key |-> KeyA,
                         issued_at |-> 0, expires_at |-> device_token_ttl_seconds,
                         force_renewal_required |-> FALSE]}
    /\ next_token = 1
    /\ enroll_resp = EnrollResponse("d1", 1, 0, device_token_ttl_seconds, "issued")

SealIdle ==
    /\ capture_records = <<>>
    /\ lock_resp = NoLockResp
    /\ sealer = [p \in Sealers |-> IdleSealer]
    /\ next_batch = 0
    /\ ledger = EmptyLedger
    /\ commits = {}

EnrollIdle == enroll_calls = [c \in EnrollCalls |-> IdleCall(EnrollError(NoDevice, 0, "none"))]

NoVerifyResp == VerifyRaised(0, "none")


VerifierIdle ==
    /\ clock = 0
    /\ ledger_entries = {}
    /\ attestation_certs = {}
    /\ replay_cache = {}
    /\ verify_resp = NoVerifyResp
    /\ crl_pass = IdleCrlPass
    /\ ingest_result = NoCertificate
    /\ rate_cache = {}
    /\ settings = DefaultSettings
    /\ trusted_time = TrustedTimeIdle
    /\ resp_headers = NoHeaders

ApiIdle == EnrollIdle /\ VerifierIdle

\* the Merkle kernel on every bounded input
InitMerkle ==
    /\ leaves \in LeafSeqs
    /\ root_out = NotCalled
    /\ tree_out = NotCalled
    /\ now = 0
    /\ TokensEmpty
    /\ SealIdle
    /\ ApiIdle

NextMerkle == ComputeRoot \/ BuildTree

SpecMerkle == InitMerkle /\ [][NextMerkle]_vars

\* the token service
InitEnrol == MerkleIdle /\ now = 0 /\ TokensEmpty /\ SealIdle /\ ApiIdle

NextEnrol == Enroll \/ FlagForceRenewal \/ Advance(EnrolInstants)

SpecEnrol == InitEnrol /\ [][NextEnrol]_vars

\* the lock-proof requests of the enrolled device d1 that feed the sealer
SealLockRequests ==
    {LockRequest("bearer", 1, "d1", KeyA, "d1", KeyA, h, TRUE, TRUE, FALSE) :
        h \in {LeafA, LeafUpper}}

InitSeal == MerkleIdle /\ now = 0 /\ TokensEnrolled /\ SealIdle /\ ApiIdle

\* the lock-proof writer and one sealer process: passes do not overlap
NextSealer ==
    \/ LockProof(SealLockRequests)
    \/ Advance(SealInstants)
    \/ seal_pending_records("s1")

SpecSealer == InitSeal /\ [][NextSealer]_vars

\* the lock-proof writer and two sealer processes: passes may overlap
NextSealers ==
    \/ LockProof(SealLockRequests)
    \/ Advance(SealInstants)
    \/ \E p \in Sealers : seal_pending_records(p)

SpecSealers == InitSeal /\ [][NextSealers]_vars

\* a pass that fails: the artifact write, the commit, the tree or git raised
FailedOutcomes ==
    {"merkle_error", "write_failed", "commit_failed",
     "git_commit_failed", "git_push_failed"}

\* a step of a pass that does not fail
SucceedingPass(p) ==
    seal_pending_records(p) /\ sealer'[p].outcome \notin FailedOutcomes

\* a step of a pass that has selected its records
PassContinues(p) ==
    (SealWrite(p) \/ SealCommit(p) \/ SealGit(p))
      /\ sealer'[p].outcome \notin FailedOutcomes

\* the lock-proof writer and two sealer processes whose passes all succeed;
\* a pass that has selected its records runs to its end
NextProgress ==
    \/ LockProof(SealLockRequests)
    \/ \E p \in Sealers : SucceedingPass(p)

SpecProgress ==
    InitSeal /\ [][NextProgress]_vars
      /\ \A p \in Sealers : WF_vars(PassContinues(p))

\* the same with one sealer process: passes do not overlap
NextProgressSerial ==
    \/ LockProof(SealLockRequests)
    \/ Advance(SealInstants)
    \/ SucceedingPass("s1")

SpecProgressSerial ==
    InitSeal /\ [][NextProgressSerial]_vars /\ WF_vars(PassContinues("s1"))

\* the enrolled device d1 rotates its token (and rebinds its key) while
\* lock-proof requests carry every token issued so far under either key
RotateKeys == {KeyA, KeyB}

Rotate ==
    \E public_key \in RotateKeys, current_token \in {NoToken} \cup 1..next_token,
       force \in BOOLEAN :
        /\ enroll_device("d1", public_key, current_token, force, TRUE)
        /\ next_token' <= MaxTokens
        /\ UNCHANGED <<apiVars, merkleVars, now, sealVars>>

RotateLockRequests ==
    {LockRequest("bearer", t, "d1", k, "d1", k, LeafA, TRUE, TRUE, FALSE) :
        t \in 1..MaxTokens, k \in RotateKeys}

\* the instants before and at the expiry of the token issued at 0 and of a
\* token issued at 29
RotateInstants == {0, 29, device_token_ttl_seconds, 29 + device_token_ttl_seconds}

NextRotate ==
    \/ Rotate
    \/ LockProof(RotateLockRequests)
    \/ Advance(RotateInstants)

SpecRotate == InitSeal /\ [][NextRotate]_vars

\* lock-proof requests of every kind the handler tells apart: the accepted
\* request of the enrolled device d1 and its variants with one thing wrong
GoodLock(h) == LockRequest("bearer", 1, "d1", KeyA, "d1", KeyA, h, TRUE, TRUE, FALSE)

LockRequests ==
    {GoodLock(LeafA), GoodLock(LeafUpper), GoodLock(LeafNonHex),
     [GoodLock(LeafA) EXCEPT !.capture_time_ok = FALSE],
     [GoodLock(LeafA) EXCEPT !.auth_kind = "none"],
     [GoodLock(LeafA) EXCEPT !.auth_kind = "basic"],
     [GoodLock(LeafA) EXCEPT !.x_device_id = NoDevice],
     [GoodLock(LeafA) EXCEPT !.x_device_pubkey = NoKey],
     [GoodLock(LeafA) EXCEPT !.device_id = "d2"],
     [GoodLock(LeafA) EXCEPT !.device_pubkey = KeyB],
     [GoodLock(LeafA) EXCEPT !.token = BogusToken],
     [GoodLock(LeafA) EXCEPT !.x_device_id = "d2", !.device_id = "d2"],
     [GoodLock(LeafA) EXCEPT !.x_device_pubkey = KeyB, !.device_pubkey = KeyB],
     [GoodLock(LeafA) EXCEPT !.verify_signatures = TRUE],
     [GoodLock(LeafA) EXCEPT !.verify_signatures = TRUE, !.signature_ok = FALSE]}

\* the instants the lock-proof writer is observed at: before the expiry of
\* the token issued at 0, and at its expiry (expires_at = now)
LockInstants == {0, 29, device_token_ttl_seconds}

\* the lock-proof writer under every kind of request
NextLock ==
    \/ LockProof(LockRequests)
    \/ Advance(LockInstants)

SpecLock == InitSeal /\ [][NextLock]_vars

\* the lock-proof writer under accepted requests and requests with a
\* malformed asset_hash, and one sealer process
LockSealRequests == {GoodLock(LeafA), GoodLock(LeafUpper), GoodLock(LeafNonHex)}

NextLockSeal ==
    \/ LockProof(LockSealRequests)
    \/ Advance(SealInstants)
    \/ seal_pending_records("s1")

SpecLockSeal == InitSeal /\ [][NextLockSeal]_vars

\* the verifier: one ledger entry (or none), its certificate present,
\* revoked or missing, and every combination of request fields
ContentHashes == {"ca", "cb"}
ManifestHashes == {"ma", "mb"}
SignatureHashes == {"sa", "sb"}
CertHashes == {"ka", "kb"}

LedgerEntry(content_hash, manifest_hash, signature_hash, cert_hash, timestamp_utc, proof_level) ==
    [entry_id |-> "entry-1", content_hash |-> content_hash,
     manifest_hash |-> manifest_hash, device_signature_hash |-> signature_hash,
     attestation_cert_hash |-> cert_hash, timestamp_utc |-> timestamp_utc,
     proof_level |-> proof_level]

\* timestamps around the tolerated lead over the clock at instants 0 and 1
VerifyInstants == {0, 1}

EntryPool ==
    {LedgerEntry("ca", m, g, "ka", t, l) :
        m \in {NoHash, "ma"}, g \in {NoHash, "sa"},
        t \in {MaxTimestampLead, MaxTimestampLead + 1},
        l \in {"rooted", "legacy"}}

CertPool ==
    {{}, {AttestationCertificate("ka", "1A", FALSE, NoTime, {})},
         {AttestationCertificate("ka", "1A", TRUE, 0, {})}}

VerifyRequests ==
    {VerifyRequest(c, m, k, g, NoHash) :
        c \in ContentHashes, m \in {NoHash} \cup ManifestHashes,
        k \in CertHashes, g \in {NoHash} \cup SignatureHashes}

InitVerify ==
    /\ MerkleIdle /\ now = 0 /\ TokensEmpty /\ SealIdle /\ EnrollIdle
    /\ clock = 0
    /\ ledger_entries \in {{}} \cup {{e} : e \in EntryPool}
    /\ attestation_certs \in CertPool
    /\ replay_cache = {}
    /\ verify_resp = NoVerifyResp
    /\ crl_pass = IdleCrlPass
    /\ ingest_result = NoCertificate
    /\ rate_cache = {}
    /\ settings = DefaultSettings
    /\ trusted_time = TrustedTimeIdle
    /\ resp_headers = NoHeaders

NextVerify == Verify(VerifyRequests) \/ Tick(VerifyInstants)

SpecVerify == InitVerify /\ [][NextVerify]_vars

\* certificate ingestion, CRL refresh passes and verifications of one ledger
\* entry that references the certificate ka
PemPool == {Pem("ka", "1A", {"u1"}), Pem("kb", "2B", {})}

CrlVerifyRequests == {VerifyRequest("ca", "ma", "ka", "sa", NoHash)}

CrlInstants == {0, replay_cache_ttl_seconds, 2 * replay_cache_ttl_seconds}

\* the certificates of the pool have been ingested at instant 0
InitCrl ==
    /\ MerkleIdle /\ now = 0 /\ TokensEmpty /\ SealIdle /\ EnrollIdle
    /\ clock = 0
    /\ ledger_entries = {LedgerEntry("ca", "ma", "sa", "ka", 0, "rooted")}
    /\ attestation_certs = {NewRow(pem, NoMetadata) : pem \in PemPool}
    /\ replay_cache = {}
    /\ verify_resp = NoVerifyResp
    /\ crl_pass = IdleCrlPass
    /\ ingest_result = NoCertificate
    /\ rate_cache = {}
    /\ settings = DefaultSettings
    /\ trusted_time = TrustedTimeIdle
    /\ resp_headers = NoHeaders

NextCrl ==
    \/ Ingest(PemPool)
    \/ refresh_crls
    \/ Verify(CrlVerifyRequests)
    \/ Tick(CrlInstants)

SpecCrl == InitCrl /\ [][NextCrl]_vars

\* the replay guard: requests of two contents with and without a nonce, at
\* instants around one and two lifetimes of a cache item
ReplayRequests ==
    {VerifyRequest(c, "ma", "ka", "sa", n) : c \in {"ca", "cb"}, n \in {NoHash, "n1"}}

ReplayInstants ==
    {0, 1, replay_cache_ttl_seconds - 1, replay_cache_ttl_seconds,
     replay_cache_ttl_seconds + 1, 2 * replay_cache_ttl_seconds - 1,
     2 * replay_cache_ttl_seconds}

InitReplay ==
    /\ MerkleIdle /\ now = 0 /\ TokensEmpty /\ SealIdle /\ EnrollIdle
    /\ clock = 0
    /\ ledger_entries = {LedgerEntry("ca", "ma", "sa", "ka", 0, "rooted")}
    /\ attestation_certs = {AttestationCertificate("ka", "1A", FALSE, NoTime, {})}
    /\ replay_cache = {}
    /\ verify_resp = NoVerifyResp
    /\ crl_pass = IdleCrlPass
    /\ ingest_result = NoCertificate
    /\ rate_cache = {}
    /\ settings = DefaultSettings
    /\ trusted_time = TrustedTimeIdle
    /\ resp_headers = NoHeaders

NextReplay == Verify(ReplayRequests) \/ Tick(ReplayInstants)

SpecReplay == InitReplay /\ [][NextReplay]_vars

\* POST /api/v1/verify from one host, anonymous and with API keys, with
\* timestamps at and just beyond the edges of the window
TimestampOffsets ==
    {-(AUTH_WINDOW_SECONDS + 1), -AUTH_WINDOW_SECONDS, AUTH_WINDOW_SECONDS,
     AUTH_WINDOW_SECONDS + 1}

ApiInstants == {0, 30, window_seconds, window_seconds + 29, window_seconds + 30}

ApiPayloads == {VerifyRequest("ca", "ma", "ka", "sa", NoHash)}

\* the timestamp headers that can be sent at the current instant
ApiTimestamps ==
    {NoTimestamp, TextTimestamp} \cup {IntTimestamp(clock + d) : d \in TimestampOffsets}

\* no signature, the signature under the key's secret, and under another
ApiSignatures(timestamp, payload) ==
    {NoSignature} \cup
        {HmacHex(secret, timestamp.value, payload.content_hash) : secret \in {"s1", "sx"}}

\* the calls that can be made at the current instant: over https with the
\* key k1 and every timestamp and signature, without a key, with an unknown
\* key, and one call over http
ApiCalls ==
    UNION {{[headers |-> Headers("https", "h1", "k1", timestamp, signature),
             payload |-> payload] :
                signature \in ApiSignatures(timestamp, payload)} :
           timestamp \in ApiTimestamps, payload \in ApiPayloads}
    \cup {[headers |-> Headers(scheme, "h1", api_key, NoTimestamp, NoSignature),
           payload |-> payload] :
              scheme \in {"https", "http"}, api_key \in {"", "kx"},
              payload \in ApiPayloads}

InitApi == InitReplay

NextApi == VerifyArtifact(ApiCalls) \/ Tick(ApiInstants)

SpecApi == InitApi /\ [][NextApi]_vars

\* POST /api/v1/verify with every kind of credentials, in deployments with
\* and without the global allow_manifest_summary
AuthInstants == {0, 30}

AuthPayloads == {VerifyRequest("ca", "ma", "ka", "sa", NoHash)}

\* no signature, the signature under the secret of the key, and under another
AuthSignatures(api_key, timestamp, payload) ==
    {NoSignature, HmacHex("sx", timestamp.value, payload.content_hash)} \cup
        {HmacHex(hmac_secret(k), timestamp.value, payload.content_hash) :
            k \in {api_key} \cap verifier_api_keys}

AuthTimestamps ==
    {NoTimestamp, TextTimestamp, IntTimestamp(clock),
     IntTimestamp(clock + AUTH_WINDOW_SECONDS + 1)}

\* calls over https with every kind of credentials; anonymous calls with and
\* without an X-Request-ID; one call over http
AuthCalls ==
    UNION {{[headers |-> Headers("https", "h1", api_key, timestamp, signature),
             payload |-> payload] :
                signature \in AuthSignatures(api_key, timestamp, payload)} :
           api_key \in {"", "k1", "k2", "kx"},
           timestamp \in AuthTimestamps, payload \in AuthPayloads}
    \cup {[headers |-> WithRequestId(Headers(scheme, "h1", "", NoTimestamp, NoSignature), "r1"),
           payload |-> payload] : scheme \in {"https", "http"}, payload \in AuthPayloads}

InitAuth ==
    /\ MerkleIdle /\ now = 0 /\ TokensEmpty /\ SealIdle /\ EnrollIdle
    /\ clock = 0
    /\ ledger_entries = {LedgerEntry("ca", "ma", "sa", "ka", 0, "rooted")}
    /\ attestation_certs = {AttestationCertificate("ka", "1A", FALSE, NoTime, {})}
    /\ replay_cache = {}
    /\ verify_resp = NoVerifyResp
    /\ crl_pass = IdleCrlPass
    /\ ingest_result = NoCertificate
    /\ rate_cache = {}
    /\ settings \in {[allow_manifest_summary |-> b] : b \in BOOLEAN}
    /\ trusted_time = TrustedTimeIdle
    /\ resp_headers = NoHeaders

NextAuth == VerifyArtifact(AuthCalls) \/ Tick(AuthInstants)

SpecAuth == InitAuth /\ [][NextAuth]_vars

\* a ledger of two entries and requests whose three hashes name the one, the
\* other or neither
TwoEntries ==
    {LedgerEntry("ca", "ma", "sa", "ka", 0, "rooted"),
     [LedgerEntry("cb", "mb", "sb", "ka", 0, "basic") EXCEPT !.entry_id = "entry-2"]}

LookupRequests ==
    {VerifyRequest(c, m, "ka", g, n) :
        c \in {"ca", "cb", "cx"}, m \in {NoHash, "ma", "mb"}, g \in {NoHash, "sa", "sb"},
        n \in {NoHash, "n1"}}

LookupInstants == {0, replay_cache_ttl_seconds}

InitLookup ==
    /\ MerkleIdle /\ now = 0 /\ TokensEmpty /\ SealIdle /\ EnrollIdle
    /\ clock = 0
    /\ ledger_entries = TwoEntries
    /\ attestation_certs = {AttestationCertificate("ka", "1A", FALSE, NoTime, {})}
    /\ replay_cache = {}
    /\ verify_resp = NoVerifyResp
    /\ crl_pass = IdleCrlPass
    /\ ingest_result = NoCertificate
    /\ rate_cache = {}
    /\ settings = DefaultSettings
    /\ trusted_time = TrustedTimeIdle
    /\ resp_headers = NoHeaders

NextLookup == Verify(LookupRequests) \/ Tick(LookupInstants)

SpecLookup == InitLookup /\ [][NextLookup]_vars

\* ingestion and re-ingestion of certificates, with and without metadata,
\* between refresh passes.  The row of kc was not written by
\* ingest_certificate (as in test_verification_flow.py lines 39-48): it holds
\* no PEM, another serial and issuer, and a CRL URL the certificate lacks
IngestPems ==
    {Pem("ka", "1A", {"u1"}), Reformatted(Pem("ka", "1A", {"u1"})), Pem("kc", "2B", {})}

IngestMetadata == {NoMetadata, EmptyMetadata, "env=test", "env=prod"}

IngestInstants == {0, 300}

InitIngest ==
    /\ MerkleIdle /\ now = 0 /\ TokensEmpty /\ SealIdle /\ EnrollIdle
    /\ clock = 0
    /\ ledger_entries = {}
    /\ attestation_certs = {AttestationCertificate("kc", "7F", FALSE, NoTime, {"u1"})}
    /\ replay_cache = {}
    /\ verify_resp = NoVerifyResp
    /\ crl_pass = IdleCrlPass
    /\ ingest_result = NoCertificate
    /\ rate_cache = {}
    /\ settings = DefaultSettings
    /\ trusted_time = TrustedTimeIdle
    /\ resp_headers = NoHeaders

NextIngest ==
    \/ IngestWith(IngestPems, IngestMetadata)
    \/ refresh_crls
    \/ Tick(IngestInstants)

SpecIngest == InitIngest /\ [][NextIngest]_vars

\* the three verifier endpoints, called anonymously and with the key k1, with
\* and without an X-Request-ID, over https and over http
EndpointHeaders(content_hash) ==
    {Headers("https", "h1", "", NoTimestamp, NoSignature),
     WithRequestId(Headers("https", "h1", "", NoTimestamp, NoSignature), "r1"),
     WithRequestId(Headers("http", "h1", "", NoTimestamp, NoSignature), "r1"),
     WithRequestId(Headers("https", "h1", "k1", IntTimestamp(clock),
                           HmacHex(hmac_secret("k1"), clock, content_hash)), "r2"),
     WithRequestId(Headers("https", "h1", "k1", IntTimestamp(clock),
                           HmacHex("sx", clock, content_hash)), "r2")}

EndpointPayloads == {VerifyRequest(c, NoHash, NoHash, NoHash, NoHash) : c \in {"ca", "cx"}}

EndpointCalls ==
    UNION {{[headers |-> h, payload |-> payload] : h \in EndpointHeaders(payload.content_hash)} :
           payload \in EndpointPayloads}

CertificateCalls ==
    {[headers |-> h, cert_hash |-> cert_hash] :
        h \in EndpointHeaders(NoHash), cert_hash \in {"ka", "kx"}}

EndpointInstants == {0, 30}

InitEndpoints ==
    /\ MerkleIdle /\ now = 0 /\ TokensEmpty /\ SealIdle /\ EnrollIdle
    /\ clock = 0
    /\ ledger_entries = {LedgerEntry("ca", "ma", "sa", "ka", 0, "rooted")}
    /\ attestation_certs = {NewRow(Pem("ka", "1A", {}), "env=test")}
    /\ replay_cache = {}
    /\ verify_resp = NoVerifyResp
    /\ crl_pass = IdleCrlPass
    /\ ingest_result = NoCertificate
    /\ rate_cache = {}
    /\ settings = DefaultSettings
    /\ trusted_time = TrustedTimeIdle
    /\ resp_headers = NoHeaders

NextEndpoints ==
    \/ VerifyArtifact(EndpointCalls)
    \/ LedgerLookup(EndpointCalls)
    \/ GetCertificate(CertificateCalls)
    \/ Tick(EndpointInstants)

SpecEndpoints == InitEndpoints /\ [][NextEndpoints]_vars

\* two threads calling trusted_time.now() while time passes; the service has
\* been up for a while when the first call comes (time() is far from 0)
TimeInstants == {100, 130, 160, 161, 222}

InitTime ==
    /\ MerkleIdle /\ now = 0 /\ TokensEmpty /\ SealIdle /\ EnrollIdle
    /\ clock = 100
    /\ ledger_entries = {}
    /\ attestation_certs = {}
    /\ replay_cache = {}
    /\ verify_resp = NoVerifyResp
    /\ crl_pass = IdleCrlPass
    /\ ingest_result = NoCertificate
    /\ rate_cache = {}
    /\ settings = DefaultSettings
    /\ trusted_time = TrustedTimeIdle
    /\ resp_headers = NoHeaders

NextTime == TrustedTimeNow \/ Tick(TimeInstants)

SpecTime == InitTime /\ [][NextTime]_vars

\* payload hygiene and manifest summaries through POST /api/v1/verify
Xs(n) == [i \in 1..n |-> "x"]

One(key, value) == JDict(<< <<key, value>> >>)

KeyTitle == <<"t", "i", "t", "l", "e">>
KeyDescription == <<"d", "e", "s", "c", "r", "i", "p", "t", "i", "o", "n">>

\* the longest string s for which {"title":[s]} encodes to the cap
CapFill == manifest_summary_max_bytes - (2 + Len(KeyTitle) + 3 + 2 + 2)

HygieneSummaries ==
    {JNull,
     One(KeyTitle, JStr(Xs(3))),
     One(KeyTitle, One(<<"M", "e", "d", "i", "a">>, JStr(Xs(3)))),
     One(KeyTitle, JList(<<One(<<"m", "e", "d", "i", "a">>, JStr(Xs(3)))>>)),
     One(KeyTitle, JList(<<JStr(<<"D", "A", "T", "A", ":", "I", "M", "A", "G", "E", "/", "p", "n", "g">>)>>)),
     One(KeyDescription, JStr(<<"s", "e", "e", " ", "B", "a", "s", "e", "6", "4", ",", "x", "y", "z">>)),
     One(KeyDescription, One(<<"n", "o", "t", "e">>, JStr(<<"d", "a", "t", "a", ":", "i", "m", "a", "g", "e", "/", "p", "n", "g">>))),
     One(KeyDescription, JStr(Xs(MAX_STRING_LENGTH))),
     One(KeyDescription, JStr(Xs(MAX_STRING_LENGTH + 1))),
     One(KeyTitle, One(<<"n", "o", "t", "e">>, JStr(Xs(MAX_STRING_LENGTH + 1)))),
     One(<<"t", "h", "u", "m", "b", "n", "a", "i", "l">>, JStr(Xs(3))),
     One(<<"m", "e", "d", "i", "a">>, JStr(Xs(3))),
     One(KeyTitle, JList(<<JStr(Xs(CapFill))>>)),
     One(KeyTitle, JList(<<JStr(Xs(CapFill + 1))>>))}

HygienePayloads ==
    {WithSummary(VerifyRequest("ca", "ma", "ka", "sa", NoHash), summary) :
        summary \in HygieneSummaries}

HygieneInstants == {0, 30}

\* the anonymous client, who may send summaries when the global setting
\* permits them, and a key whose record does not permit them (k3)
HygieneKeys == {"", "k3"}

\* the call of the client for the payload, signed at the present instant
HygieneCall(api_key, payload) ==
    [headers |-> Headers("https", "h1", api_key, IntTimestamp(clock),
                         IF api_key = "" THEN NoSignature
                         ELSE HmacHex(hmac_secret(api_key), clock, payload.content_hash)),
     payload |-> payload]

VerifyHygiene ==
    \E api_key \in HygieneKeys, payload \in HygienePayloads :
        /\ verify_artifact(HygieneCall(api_key, payload).headers, payload)
        /\ UNCHANGED endpointFrame

NextHygiene == VerifyHygiene \/ Tick(HygieneInstants)

SpecHygiene == InitAuth /\ [][NextHygiene]_vars


\* the pipeline of POST /api/v1/verify under requests that fail at each of
\* its stages: over http, with an unknown key, beyond the rate limit, with a
\* payload that fails hygiene, with a manifest summary that is not allowed,
\* repeated within the replay TTL, and answered verified or not_verified
PipelineSchemes == {"https", "http"}

PipelineKeys == {"", "kx", "k3"}

PipelinePayloads ==
    {VerifyRequest("ca", "ma", "ka", "sa", NoHash),
     VerifyRequest("cx", NoHash, NoHash, NoHash, NoHash),
     WithSummary(VerifyRequest("ca", "ma", "ka", "sa", NoHash),
                 One(KeyTitle, One(<<"M", "e", "d", "i", "a">>, JStr(Xs(3))))),
     WithSummary(VerifyRequest("ca", "ma", "ka", "sa", NoHash),
                 One(KeyTitle, JStr(Xs(3))))}

PipelineInstants == {0, 30, window_seconds, replay_cache_ttl_seconds}

\* the call of the client for the payload, signed at the present instant
PipelineCall(scheme, api_key, payload) ==
    [headers |-> Headers(scheme, "h1", api_key, IntTimestamp(clock),
                         IF api_key = "" THEN NoSignature
                         ELSE HmacHex(hmac_secret(api_key), clock, payload.content_hash)),
     payload |-> payload]

VerifyPipeline ==
    \E scheme \in PipelineSchemes, api_key \in PipelineKeys,
       payload \in PipelinePayloads :
        /\ verify_artifact(PipelineCall(scheme, api_key, payload).headers, payload)
        /\ UNCHANGED endpointFrame

NextPipeline == VerifyPipeline \/ Tick(PipelineInstants)

SpecPipeline == InitReplay /\ [][NextPipeline]_vars

\* the token service with two enrol requests in flight
NextEnrolOverlap ==
    \/ \E c \in EnrollCalls : EnrollRead(c) \/ EnrollWrite(c)
    \/ Advance(EnrolInstants)

SpecEnrolOverlap == InitSeal /\ [][NextEnrolOverlap]_vars

-----------------------------------------------------------------------------
(* Properties of the Merkle kernel (SpecMerkle) *)

\* the digest of a leaf as the kernel takes it: prefix removed, lower-cased
DigestOf(leaf) == Lower(SubSeq(leaf, Len(SHA256_PREFIX) + 1, Len(leaf)))

AllWellFormed == \A i \in DOMAIN leaves : SHA256_PREFIXED(leaves[i])

TreeShape(level0) ==
    /\ tree_out.ok
    /\ root_out.ok
    /\ tree_out.root = root_out.root
    /\ tree_out.levels[1] = level0
    /\ \A k \in 1..(Len(tree_out.levels) - 1) :
          LET lower == tree_out.levels[k]
              upper == tree_out.levels[k + 1]
          IN  /\ Len(upper) = (Len(lower) + 1) \div 2
              /\ \A i \in DOMAIN upper :
                    upper[i] = Sha256Hex(lower[2 * i - 1] \o
                                  lower[IF 2 * i <= Len(lower) THEN 2 * i ELSE 2 * i - 1])
    /\ Len(tree_out.levels[Len(tree_out.levels)]) = 1
    /\ tree_out.root = SHA256_PREFIX \o tree_out.levels[Len(tree_out.levels)][1]

BothCalledOnWellFormed ==
    /\ root_out # NotCalled
    /\ tree_out # NotCalled
    /\ leaves # <<>>
    /\ AllWellFormed

\* C6 as claimed: for every non-empty sequence L of well-formed leaves,
\* build_merkle_tree(L) returns the root of compute_merkle_root(L), levels[0]
\* equal to L with the "sha256:" prefix stripped, every next level of length
\* ceil(previous / 2) with each parent the hash of its children, and a single
\* root node as the last level.
C6_LevelZeroIsStrippedInput ==
    BothCalledOnWellFormed =>
        TreeShape([i \in DOMAIN leaves |->
                      SubSeq(leaves[i], Len(SHA256_PREFIX) + 1, Len(leaves[i]))])

\* C6 amended: as claimed, except that levels[0] is L with the "sha256:" prefix
\* stripped and the digest lower-cased.
C6_LevelZeroIsLoweredInput ==
    BothCalledOnWellFormed => TreeShape([i \in DOMAIN leaves |-> DigestOf(leaves[i])])

C6_Witness ==
    /\ BothCalledOnWellFormed
    /\ Len(leaves) = 3
    /\ Len(tree_out.levels) = 3
    /\ leaves[3] = LeafUpper

\* C7 as claimed: both functions fail with MerkleComputationError, returning no
\* root, for an empty sequence and for any sequence holding a leaf that is not
\* "sha256:" followed by exactly 64 hexadecimal characters.
C7_MalformedLeavesRejected ==
    (leaves = <<>> \/ ~AllWellFormed) =>
        /\ root_out # NotCalled =>
              ~root_out.ok /\ root_out.error = "MerkleComputationError"
        /\ tree_out # NotCalled =>
              ~tree_out.ok /\ tree_out.error = "MerkleComputationError"

-----------------------------------------------------------------------------
(* Properties of the token service (SpecEnrol) *)

\* the step is enroll_device serving this request
EnrollStep(d, public_key, current_token, force, devicecheck_ok) ==
    /\ enroll_device(d, public_key, current_token, force, devicecheck_ok)
    /\ UNCHANGED <<apiVars, merkleVars, now, sealVars>>

EnrollTokens == {NoToken, BogusToken} \cup 1..MaxTokens

\* C8: for an existing device, force = false and current_token equal to the
\* stored token, enrol answers with the stored token, issued_at and expires_at
\* and leaves the row unchanged if and only if force_renewal_required is false
\* and expires_at - now > renewal_buffer; otherwise it rotates: a new token is
\* stored and returned.
C8_ReuseIffOutsideBuffer ==
    [][\A row \in device_tokens :
          (row.device_id = enroll_resp'.device_id /\ now' = now) =>
          \A public_key \in {k \in PublicKeys : validate_pubkey_format(k)} :
          EnrollStep(row.device_id, public_key, row.token, FALSE, TRUE)
          => IF ~row.force_renewal_required
                /\ row.expires_at - now > device_token_renewal_buffer
             THEN /\ device_tokens' = device_tokens
                  /\ enroll_resp'.status = 200
                  /\ enroll_resp'.token = row.token
                  /\ enroll_resp'.issued_at = row.issued_at
                  /\ enroll_resp'.expires_at = row.expires_at
             ELSE /\ enroll_resp'.status = 200
                  /\ enroll_resp'.token # row.token
                  /\ \E new \in device_tokens' :
                        /\ new.device_id = row.device_id
                        /\ new.token = enroll_resp'.token
                  /\ row \notin device_tokens'
       ]_vars

\* a reuse one unit outside the renewal buffer, of a token issued earlier
C8_Witness ==
    /\ enroll_resp.status = 200
    /\ enroll_resp.detail = "reused"
    /\ enroll_resp.expires_at - now = device_token_renewal_buffer + 1
    /\ \E row \in device_tokens :
          row.token = enroll_resp.token /\ ~row.force_renewal_required

C10_RowInvariant ==
    /\ \A d \in Devices : Cardinality(RowsOf(d)) <= 1
    /\ enroll_resp.status = 200 => Cardinality(RowsOf(enroll_resp.device_id)) = 1
    /\ \A r1, r2 \in device_tokens : r1.token = r2.token => r1 = r2
    /\ \A r \in device_tokens :
          /\ r.expires_at = r.issued_at + device_token_ttl_seconds
          /\ r.expires_at > r.issued_at

\* a step that issues a token stores, for one device, a row whose token no row
\* held before, issued now and with force_renewal_required false; rows of
\* other devices are untouched and no device loses its row
C10_IssueStep ==
    /\ \A d \in Devices : RowsOf(d) # {} => {r \in device_tokens' : r.device_id = d} # {}
    /\ next_token' # next_token =>
          \E new \in device_tokens' :
              /\ new.token = enroll_resp'.token
              /\ new.device_id = enroll_resp'.device_id
              /\ \A old \in device_tokens : old.token # new.token
              /\ new.issued_at = now
              /\ ~new.force_renewal_required
              /\ \A r \in device_tokens' : r = new \/ (r \in device_tokens /\ r.device_id # new.device_id)

\* C10: after any sequence of enrol requests there is exactly one row per
\* enrolled device, every row has expires_at = issued_at + TTL > issued_at, and
\* every issue or rotation stores a token different from every stored one, sets
\* issued_at to the current time and clears force_renewal_required.
C10_OneRowPerDevice == []C10_RowInvariant /\ [][C10_IssueStep]_vars

\* both devices hold a row and the third token was just issued, after instant 0
C10_Witness ==
    /\ \A d \in Devices : RowsOf(d) # {}
    /\ enroll_resp.status = 200
    /\ enroll_resp.detail = "issued"
    /\ enroll_resp.token = 3
    /\ now > 0
    /\ \E r \in device_tokens : r.token = 3 /\ r.issued_at = now

-----------------------------------------------------------------------------
(* Properties of the sealer (SpecSealer, SpecSealers) *)

SealingFields(r) == <<r.merkle_batch_id, r.merkle_root_hash, r.merkle_sealed_at_utc>>

Unsealed(r) == SealingFields(r) = <<NoBatch, NoRoot, NoTime>>

FullySealed(r) ==
    /\ r.merkle_batch_id # NoBatch
    /\ r.merkle_root_hash # NoRoot
    /\ r.merkle_sealed_at_utc # NoTime

\* the primary keys of the records a pass holds
RecordIds(l) == {l.records[i].record_id : i \in DOMAIN l.records}

ListedIds(b) == [i \in DOMAIN b.records |-> b.records[i].record_id]

C1_AllOrNothingFields ==
    \A i \in DOMAIN capture_records :
        Unsealed(capture_records[i]) \/ FullySealed(capture_records[i])

\* the step that ends the transaction of a pass: the commit returned, or the
\* artifact write or the commit raised
C1_PassStep ==
    \A p \in Sealers :
        /\ (sealer[p].pc = "commit" /\ sealer'[p].outcome # "commit_failed"
                /\ sealer'[p] # sealer[p])
           => \A id \in RecordIds(sealer[p]) :
                 SealingFields(capture_records'[id]) =
                    <<sealer[p].batch_id, sealer[p].root_hash, sealer[p].sealed_at>>
        /\ (sealer[p].pc \in {"write", "commit"}
                /\ sealer'[p].outcome \in {"write_failed", "commit_failed"})
           => /\ capture_records' = capture_records
              /\ \A id \in RecordIds(sealer[p]) :
                    capture_records'[id].merkle_batch_id = NoBatch

\* C1: a sealer pass is atomic.  When its commit returns, every record it
\* selected carries the pass's batch_id, root_hash and sealed_at; when the
\* artifact write or the commit raises, no record changed and every selected
\* record still has merkle_batch_id NULL, so the next pass selects it; and in
\* every reachable state each record has its three sealing fields all NULL or
\* all set.
C1_SealerAtomicity == []C1_AllOrNothingFields /\ [][C1_PassStep]_vars

\* an earlier pass sealed a record, a later pass selected another record and
\* its commit raised: that record is still unsealed
C1_Witness ==
    /\ sealer["s1"].outcome = "commit_failed"
    /\ commits # {}
    /\ \E i, j \in DOMAIN capture_records :
          /\ FullySealed(capture_records[i])
          /\ Unsealed(capture_records[j])

\* C2: once the three sealing fields of a record are non-NULL no step changes
\* them, also when two sealer passes overlap.
C2_SealingFieldsImmutable ==
    [][\A i \in DOMAIN capture_records :
          capture_records[i].merkle_batch_id # NoBatch
          => SealingFields(capture_records'[i]) = SealingFields(capture_records[i])
      ]_vars

C3_BatchInvariant ==
    \A b \in ledger.batches :
        LET hashes == [i \in DOMAIN b.records |-> b.records[i].asset_hash]
            row(i) == capture_records[b.records[i].record_id]
        IN  /\ compute_merkle_root(hashes).ok
            /\ b.root_hash = compute_merkle_root(hashes).root
            /\ \A i, j \in DOMAIN b.records :
                  i < j => row(i).created_at_utc <= row(j).created_at_utc
            /\ \A i \in DOMAIN b.records : row(i).asset_hash = b.records[i].asset_hash
            /\ b.batch_id \in commits
               => \A i \in DOMAIN b.records :
                     /\ row(i).merkle_batch_id = b.batch_id
                     /\ row(i).merkle_root_hash = b.root_hash

C3_PassStep ==
    \A p \in Sealers :
        /\ (sealer[p].pc = "idle" /\ sealer'[p].pc = "write")
           => RecordIds(sealer'[p]) =
                 {i \in PendingIds : capture_records[i].asset_hash # <<>>}
        /\ (sealer[p].pc = "write" /\ sealer'[p].pc = "commit")
           => \E b \in ledger'.batches :
                 /\ b.batch_id = sealer[p].batch_id
                 /\ b.root_hash = sealer[p].root_hash
                 /\ ListedIds(b) = [i \in DOMAIN sealer[p].records |->
                                       sealer[p].records[i].record_id]

\* C3: the batch file of a pass lists exactly the records the pass selected
\* (the rows with merkle_batch_id NULL and an asset_hash), in ascending
\* created_at_utc; its root_hash is the Merkle root recomputed from the listed
\* asset_hash values in the listed order; once the pass has committed, every
\* listed record stores that batch_id and that root_hash.
C3_BatchMatchesSelection == []C3_BatchInvariant /\ [][C3_PassStep]_vars

\* a committed batch of two records created at different instants
C3_Witness ==
    \E b \in ledger.batches :
        /\ b.batch_id \in commits
        /\ Len(b.records) = 2
        /\ capture_records[b.records[1].record_id].created_at_utc
              < capture_records[b.records[2].record_id].created_at_utc

GitFailures == {"git_commit_failed", "git_push_failed"}

C4_GitFailureStep ==
    \A p \in Sealers :
        /\ (sealer[p].pc = "git" /\ sealer'[p].outcome \in GitFailures)
           => /\ sealer[p].batch_id \in commits
              /\ \A id \in RecordIds(sealer[p]) :
                    /\ capture_records'[id].merkle_batch_id = sealer[p].batch_id
                    /\ capture_records'[id].merkle_root_hash = sealer[p].root_hash
        /\ (sealer[p].pc = "idle" /\ sealer'[p].pc = "write")
           => \A b \in ledger.batches :
                 b.batch_id \in commits
                 => \A i \in DOMAIN b.records :
                       b.records[i].record_id \notin RecordIds(sealer'[p])

C4_AfterGitFailure ==
    \A p \in Sealers :
        sealer[p].outcome \in GitFailures
        => /\ sealer[p].batch_id \in commits
           /\ \E b \in ledger.batches :
                 /\ b.batch_id = sealer[p].batch_id
                 /\ \A i \in DOMAIN b.records :
                       LET r == capture_records[b.records[i].record_id]
                       IN  /\ r.merkle_batch_id = b.batch_id
                           /\ r.merkle_root_hash = b.root_hash

\* C4: a git step raises only after the commit of the batch: when
\* _git_commit or _git_push fails the batch is committed and its records
\* carry its batch_id and root_hash, they keep them afterwards, and no later
\* pass selects a record of a committed batch.
C4_GitFailureKeepsSeal == []C4_AfterGitFailure /\ [][C4_GitFailureStep]_vars

\* the push of a sealed batch failed and a record of the batch is sealed
C4_Witness ==
    /\ sealer["s1"].outcome = "git_push_failed"
    /\ \E i \in DOMAIN capture_records :
          capture_records[i].merkle_batch_id = sealer["s1"].batch_id

-----------------------------------------------------------------------------
(* Properties of overlapping enrol requests (SpecEnrolOverlap) *)

\* C11: enrol requests for one device_id take effect one after the other.
\* When a request commits its write and is answered with success, the branch
\* of enroll_device on the row as it is stored at that moment is the issue
\* branch too (the request acts on the row state its predecessor left), and
\* after the write the row of the device holds the token the request returns.
C11_IssuanceSerialized ==
    [][\A c \in EnrollCalls :
          (enroll_calls[c].pc = "write" /\ enroll_calls'[c].resp.status = 200)
          => LET l == enroll_calls[c]
             IN  /\ EnrollBranch(RowsOf(l.device_id), l.current_token, l.force) = "issue"
                 /\ \E r \in device_tokens' :
                       r.device_id = l.device_id /\ r.token = l.token
      ]_vars

-----------------------------------------------------------------------------
(* Properties of the lock-proof writer (SpecLock) *)

LockStep(req) ==
    /\ lock_proof(req)
    /\ UNCHANGED <<apiVars, merkleVars, now, tokenVars, sealer, next_batch, ledger, commits>>

\* the request passed the validation of its body (schemas.py)
LockBodyValid(req) == SHA256_PREFIXED(req.asset_hash) /\ req.capture_time_ok

LockHeadersPresent(req) ==
    /\ req.auth_kind = "bearer"
    /\ req.x_device_id # NoDevice
    /\ req.x_device_pubkey # NoKey

LockHeadersMatchBody(req) ==
    /\ req.device_id = req.x_device_id
    /\ req.device_pubkey = req.x_device_pubkey

LockTokenIsStored(req) ==
    \E r \in RowsOf(req.x_device_id) : r.token = req.token

\* C12: the rejections of lock-proof.  A request with a valid body is answered
\* 401 when its Authorization header is missing or not Bearer; 400 when its
\* device headers differ from the body; 401 when its token is not the stored
\* token of the device; 403 when its public key differs from the stored one;
\* 401 when the token is expired (expires_at <= now); 400 when signatures are
\* verified and the signature is invalid.  No rejected request adds a record.
C12_LockProofRejections ==
    [][\A req \in LockRequests :
          (lock_resp'.status # 0 /\ now' = now /\ LockBodyValid(req) /\ LockStep(req))
          => LET rows == RowsOf(req.x_device_id)
             IN  /\ req.auth_kind # "bearer" => lock_resp'.status = 401
                 /\ (LockHeadersPresent(req) /\ ~LockHeadersMatchBody(req))
                    => lock_resp'.status = 400
                 /\ (LockHeadersPresent(req) /\ LockHeadersMatchBody(req)
                        /\ ~LockTokenIsStored(req))
                    => lock_resp'.status = 401
                 /\ (LockHeadersPresent(req) /\ LockHeadersMatchBody(req)
                        /\ LockTokenIsStored(req))
                    => /\ (\A r \in rows : r.public_key # req.x_device_pubkey)
                          => lock_resp'.status = 403
                       /\ ((\E r \in rows : r.public_key = req.x_device_pubkey)
                              /\ (\A r \in rows : r.expires_at <= now))
                          => lock_resp'.status = 401
                       /\ ((\E r \in rows : r.public_key = req.x_device_pubkey)
                              /\ (\E r \in rows : r.expires_at > now)
                              /\ req.verify_signatures /\ ~req.signature_ok)
                          => lock_resp'.status = 400
                 /\ lock_resp'.status # 200 => capture_records' = capture_records
      ]_vars

\* ^sha256:[0-9a-fA-F]{64}$, character by character
MatchesSha256Pattern(v) ==
    /\ Len(v) = 71
    /\ SubSeq(v, 1, 7) = <<"s", "h", "a", "2", "5", "6", ":">>
    /\ \A i \in 8..71 :
          v[i] \in {"0", "1", "2", "3", "4", "5", "6", "7", "8", "9",
                    "a", "b", "c", "d", "e", "f", "A", "B", "C", "D", "E", "F"}

C13_AssetHashInvariant ==
    \A i \in DOMAIN capture_records :
        MatchesSha256Pattern(capture_records[i].asset_hash)

C13_SuccessStep ==
    \A req \in LockSealRequests :
        (lock_resp'.status = 200 /\ now' = now /\ LockStep(req))
        => LET n == Len(capture_records)
               rec == capture_records'[n + 1]
           IN  /\ Len(capture_records') = n + 1
               /\ SubSeq(capture_records', 1, n) = capture_records
               /\ \A i \in 1..n : capture_records[i].record_id # rec.record_id
               /\ rec.verify_url = <<verify_base_url, "/v/", rec.record_id>>
               /\ rec.asset_hash = req.asset_hash
               /\ Unsealed(rec)
               /\ lock_resp'.body_status = "LOCKED"
               /\ lock_resp'.record_id = rec.record_id
               /\ lock_resp'.verify_url = rec.verify_url
               /\ lock_resp'.merkle = <<NoBatch, NoRoot, NoTime>>

\* C13: an accepted lock-proof request adds exactly one CaptureRecord, with a
\* record_id no stored record has, verify_url = <verify_base>/v/<record_id>,
\* the asset_hash of the request and the three sealing fields NULL, and is
\* answered LOCKED with a Merkle block of three NULLs; in every state reached
\* by lock-proof requests and sealer passes the asset_hash of every
\* CaptureRecord matches ^sha256:[0-9a-fA-F]{64}$.
C13_LockedRecord == []C13_AssetHashInvariant /\ [][C13_SuccessStep]_vars

\* a second record was just accepted, with upper-case hex digits in its
\* asset_hash, while the first record is sealed
C13_Witness ==
    /\ Len(capture_records) = 2
    /\ capture_records[2].asset_hash = LeafUpper
    /\ capture_records[1].merkle_batch_id # NoBatch
    /\ lock_resp.status = 200
    /\ lock_resp.record_id = 2

-----------------------------------------------------------------------------
(* Properties of the verifier (SpecVerify) *)

VerifyStep(req) ==
    /\ perform_verification(req, settings.allow_manifest_summary)
    /\ UNCHANGED <<coreVars, clock, ledger_entries, attestation_certs, crl_pass,
                       ingest_result, rate_cache>>

HasValue(h) == h # NoHash

\* the five predicates of a verification, on the entry found
ContentMatches(req, e) == e.content_hash = req.content_hash

AttestationHolds(req, e) ==
    /\ req.attestation_cert_hash = e.attestation_cert_hash
    /\ \E cert \in attestation_certs :
          cert.cert_hash = e.attestation_cert_hash /\ cert.revoked = FALSE

SignatureHolds(req, e) ==
    /\ (HasValue(e.device_signature_hash) /\ HasValue(req.signature_hash))
       => e.device_signature_hash = req.signature_hash
    /\ HasValue(e.device_signature_hash) => HasValue(req.signature_hash)

ManifestHolds(req, e) ==
    (HasValue(e.manifest_hash) /\ HasValue(req.manifest_hash))
    => e.manifest_hash = req.manifest_hash

TimestampHolds(e) == e.timestamp_utc - clock <= 120

AllFiveHold(req, e) ==
    /\ ContentMatches(req, e)
    /\ AttestationHolds(req, e)
    /\ SignatureHolds(req, e)
    /\ ManifestHolds(req, e)
    /\ TimestampHolds(e)

\* C14: perform_verification returns verified exactly when a ledger entry is
\* found and the content, attestation, signature, manifest and timestamp
\* predicates all hold on it; the proof_level of the success response is the
\* entry's when that is basic, attested or rooted, and basic otherwise.
C14_VerifiedIffAllHold ==
    [][\A req \in VerifyRequests :
          (verify_resp'.status \in {"verified", "not_verified"} /\ clock' = clock
              /\ VerifyStep(req))
          => LET found == lookup_ledger(req)
             IN  /\ verify_resp'.status = "verified"
                    <=> \E e \in found : AllFiveHold(req, e)
                 /\ verify_resp'.status = "verified"
                    => \E e \in found :
                          /\ verify_resp'.entry_id = e.entry_id
                          /\ verify_resp'.content_hash = req.content_hash
                          /\ verify_resp'.proof_level =
                                IF e.proof_level \in {"basic", "attested", "rooted"}
                                THEN e.proof_level ELSE "basic"
      ]_vars

\* a verified verdict for an entry whose timestamp leads the clock by exactly
\* 120 s and whose proof_level is none of the three known levels
C14_Witness ==
    /\ verify_resp.status = "verified"
    /\ verify_resp.proof_level = "basic"
    /\ clock = 0
    /\ \E e \in ledger_entries :
          e.proof_level = "legacy" /\ e.timestamp_utc = 120

\* C15: when an entry is found and the verification fails, the reason is
\* attestation_revoked if the attestation predicate failed; else
\* signature_mismatch if the signature or the manifest predicate failed; else
\* timestamp_mismatch if the timestamp predicate failed; else (only the
\* content match failed) ledger_not_found.
C15_ReasonPriority ==
    [][\A req \in VerifyRequests :
          (verify_resp'.status = "not_verified" /\ clock' = clock /\ VerifyStep(req))
          => \A e \in lookup_ledger(req) :
                /\ verify_resp'.ledger_found
                /\ verify_resp'.reason =
                      IF ~AttestationHolds(req, e) THEN "attestation_revoked"
                      ELSE IF ~SignatureHolds(req, e) \/ ~ManifestHolds(req, e)
                           THEN "signature_mismatch"
                      ELSE IF ~TimestampHolds(e) THEN "timestamp_mismatch"
                      ELSE "ledger_not_found"
      ]_vars

\* a failure with the entry found where the signature or manifest predicate
\* and the timestamp predicate both failed, answered signature_mismatch
C15_Witness ==
    /\ verify_resp.status = "not_verified"
    /\ verify_resp.ledger_found
    /\ verify_resp.reason = "signature_mismatch"
    /\ verify_resp.attestation_valid
    /\ clock = 0
    /\ \E e \in ledger_entries : e.timestamp_utc = 121

-----------------------------------------------------------------------------
(* Revocation and verification *)

\* the request's ledger entry references a certificate row that is revoked
ReferencesRevoked(req) ==
    \E e \in lookup_ledger(req), cert \in attestation_certs :
        cert.cert_hash = e.attestation_cert_hash /\ cert.revoked

\* the step is the commit of a refresh pass
CrlCommitStep == crl_pass.pc = "mark" /\ crl_pass'.pc = "idle"

\* C16: the commit of a refresh pass leaves every stored certificate whose
\* serial the fetched CRLs list revoked, a revoked row stays revoked through
\* every step of ingestion, refresh and verification, and a verification that
\* reaches the ledger while its entry's certificate is revoked answers
\* not_verified with reason attestation_revoked, never verified
C16_RevocationTakesEffect ==
    [][/\ CrlCommitStep =>
            \A c \in attestation_certs' :
                c.serial_number \in crl_pass.revoked_serials => c.revoked
       /\ \A c \in attestation_certs : c.revoked =>
            \E d \in attestation_certs' : d.cert_hash = c.cert_hash /\ d.revoked
       /\ \A req \in CrlVerifyRequests :
            (verify_resp'.code = 200 /\ ReferencesRevoked(req) /\ VerifyStep(req)) =>
                /\ verify_resp'.status = "not_verified"
                /\ verify_resp'.reason = "attestation_revoked"]_vars

\* the certificate ka was revoked at instant 300 and re-ingested since, and a
\* verification accepted at instant 600 was answered attestation_revoked
C16_Witness ==
    /\ \E c \in attestation_certs :
          c.cert_hash = "ka" /\ c.revoked /\ c.revoked_at = replay_cache_ttl_seconds
    /\ ingest_result.cert_hash = "ka" /\ ingest_result.revoked
    /\ \E item \in replay_cache : item.expires = 3 * replay_cache_ttl_seconds
    /\ clock = 2 * replay_cache_ttl_seconds
    /\ verify_resp.status = "not_verified"
    /\ verify_resp.reason = "attestation_revoked"

\* C17: no step of a refresh pass (whatever its CRLs list, whichever of its
\* fetches fail) and no ingestion (of a new or of a stored PEM) takes a row
\* with revoked = true to revoked = false, or removes it
C17_RevokedIsMonotonic ==
    [][\A c \in attestation_certs : c.revoked =>
          /\ \E d \in attestation_certs' : d.cert_hash = c.cert_hash
          /\ \A d \in attestation_certs' : d.cert_hash = c.cert_hash => d.revoked]_vars

\* ka was revoked at instant 300, its PEM was ingested again afterwards, and
\* a pass whose CRLs list only the serial of kb committed at instant 600
C17_Witness ==
    /\ \E c \in attestation_certs :
          c.cert_hash = "ka" /\ c.revoked /\ c.revoked_at = replay_cache_ttl_seconds
    /\ \E c \in attestation_certs :
          c.cert_hash = "kb" /\ c.revoked /\ c.revoked_at = 2 * replay_cache_ttl_seconds
    /\ crl_pass.outcome = "done" /\ crl_pass.revoked_serials = {"2B"}
    /\ ingest_result.cert_hash = "ka" /\ ingest_result.revoked

-----------------------------------------------------------------------------
(* The replay guard *)

\* the key the claim gives a request
ClaimedReplayKey(req) ==
    IF HasValue(req.client_nonce)
    THEN <<req.client_nonce, ":", req.content_hash>>
    ELSE <<req.content_hash>>

\* the instant at which a cache item was inserted
InsertedAt(item) == item.expires - replay_cache_ttl_seconds

\* the request's key was inserted less than the TTL ago
SeenWithinTtl(req) ==
    \E item \in replay_cache :
        /\ item.key = ClaimedReplayKey(req)
        /\ clock - InsertedAt(item) < replay_cache_ttl_seconds

\* C18: a verification whose key (nonce, ':' and content hash, or the content
\* hash alone) was inserted less than 300 s ago raises 429 replay_detected
\* and leaves the cache as it was; any other verification is accepted and
\* leaves its key in the cache, inserted at the current instant
C18_ReplayGuard ==
    [][\A req \in ReplayRequests : (clock' = clock /\ VerifyStep(req)) =>
          IF SeenWithinTtl(req)
          THEN /\ verify_resp' = VerifyRaised(429, "replay_detected")
               /\ replay_cache' = replay_cache
          ELSE /\ verify_resp'.code = 200
               /\ \E item \in replay_cache' :
                     /\ item.key = ClaimedReplayKey(req)
                     /\ InsertedAt(item) = clock
               /\ \A item \in replay_cache' :
                     item.key = ClaimedReplayKey(req) => InsertedAt(item) = clock]_vars

\* a request was rejected one second before its key expires, the key having
\* been inserted exactly one TTL after instant 0
C18_Witness ==
    /\ clock = 2 * replay_cache_ttl_seconds - 1
    /\ verify_resp = VerifyRaised(429, "replay_detected")
    /\ \E item \in replay_cache :
          item.key = <<"n1", ":", "ca">> /\ InsertedAt(item) = replay_cache_ttl_seconds
    /\ \E item \in replay_cache :
          item.key = <<"ca">> /\ InsertedAt(item) = replay_cache_ttl_seconds + 1

-----------------------------------------------------------------------------
(* The rate limiter and the timestamp window of POST /api/v1/verify *)

ApiStep(call) ==
    /\ verify_artifact(call.headers, call.payload)
    /\ UNCHANGED endpointFrame

\* the limiter's key and limit of a call that passes authentication
CallKey(call) ==
    IF call.headers.api_key = "" THEN <<"ip:", call.headers.host>>
    ELSE <<call.headers.api_key>>

CallLimit(call) ==
    IF call.headers.api_key = "" THEN anonymous_rate_limit_per_minute
    ELSE rate_limit_per_minute(call.headers.api_key)

KeyLimit(key) ==
    IF key = <<"k1">> THEN rate_limit_per_minute("k1") ELSE anonymous_rate_limit_per_minute

\* the items that hold a key's window at the current instant
WindowItems(key) ==
    {c \in rate_cache :
        c.key = key /\ clock < c.expires /\ clock - c.window_start < window_seconds}

\* the hits stored for the key's current window
WindowHits(key) ==
    IF WindowItems(key) = {} THEN 0 ELSE (CHOOSE c \in WindowItems(key) : TRUE).hits

WindowStart(key) ==
    IF WindowItems(key) = {} THEN clock
    ELSE (CHOOSE c \in WindowItems(key) : TRUE).window_start

\* C19: no stored counter exceeds its key's limit; a hit of a key whose
\* stored hits for the current window have reached the limit is denied
\* (429 rate_limited) and leaves the counter and the window start as they
\* were, and any other hit is allowed and adds one to the counter of the
\* window, so a window counts at most `limit` allowed hits before it restarts
C19_CounterWithinLimit ==
    /\ [](\A c \in rate_cache : c.hits <= KeyLimit(c.key))
    /\ [][\A call \in ApiCalls :
            (clock' = clock /\ verify_resp'.code \notin {400, 401} /\ ApiStep(call)) =>
                \E after \in rate_cache' :
                    /\ after.key = CallKey(call)
                    /\ \A c \in rate_cache' : c.key = after.key => c = after
                    /\ after.window_start = WindowStart(CallKey(call))
                    /\ IF WindowHits(CallKey(call)) >= CallLimit(call)
                       THEN /\ verify_resp' = VerifyRaised(429, "rate_limited")
                            /\ after.hits = WindowHits(CallKey(call))
                       ELSE /\ verify_resp' # VerifyRaised(429, "rate_limited")
                            /\ after.hits = WindowHits(CallKey(call)) + 1]_vars

\* in the window that started at instant 60 the key k1 has used up its limit
\* and a further call was denied
C19_Witness ==
    /\ verify_resp = VerifyRaised(429, "rate_limited")
    /\ \A c \in rate_cache : c.key = <<"k1">>
    /\ \E c \in rate_cache :
          /\ c.hits = rate_limit_per_minute("k1")
          /\ c.window_start = window_seconds

\* the calls of the known key k1 that carry a number as timestamp and the
\* HMAC of the key's secret over it and the content hash
SignedCalls ==
    {call \in ApiCalls :
        /\ call.headers.scheme = "https"
        /\ call.headers.api_key = "k1"
        /\ call.headers.timestamp.kind = "int"
        /\ call.headers.signature =
              HmacHex("s1", call.headers.timestamp.value, call.payload.content_hash)}

\* C20: a call of a known key with a correct HMAC is refused with 401
\* timestamp_out_of_window when its timestamp is more than 300 s from the
\* clock in either direction, and passes authentication otherwise: the
\* offsets +300 and -300 pass, +301 and -301 are refused
C20_TimestampWindow ==
    [][\A call \in SignedCalls : (clock' = clock /\ ApiStep(call)) =>
          LET ts == call.headers.timestamp.value
          IN  IF clock - ts <= 300 /\ ts - clock <= 300
              THEN verify_resp'.code # 401
              ELSE verify_resp' = VerifyRaised(401, "timestamp_out_of_window")]_vars

\* calls of k1 have passed authentication (all timestamps sent are 300 or
\* 301 s from the clock) and the last call was refused for its timestamp
C20_Witness ==
    /\ verify_resp = VerifyRaised(401, "timestamp_out_of_window")
    /\ \E c \in rate_cache : c.key = <<"k1">> /\ c.hits >= 2

-----------------------------------------------------------------------------
(* The outcomes of authenticate_request *)

\* what authenticate_request gives for a call
CallIdentity(call) == authenticate_request(call.headers, call.payload.content_hash)

\* the call carries the HMAC of the key's secret over '<ts>:<content_hash>'
CorrectlySigned(call) ==
    call.headers.signature =
        HmacHex(hmac_secret(call.headers.api_key), call.headers.timestamp.value,
                call.payload.content_hash)

\* the failure the claim gives a call, "" when it gives none
ClaimedFailure(call) ==
    LET h == call.headers
    IN  IF h.api_key = "" THEN ""
        ELSE IF h.api_key \notin {"k1", "k2", "k3"} THEN "invalid_api_key"
        ELSE IF h.timestamp.kind = "absent" \/ h.signature = NoSignature
        THEN "missing_hmac_headers"
        ELSE IF h.timestamp.kind # "int" THEN "invalid_timestamp"
        ELSE IF h.timestamp.value - clock > 300 \/ clock - h.timestamp.value > 300
        THEN "timestamp_out_of_window"
        ELSE IF ~CorrectlySigned(call) THEN "invalid_signature"
        ELSE ""

\* C21: without an API key the identity is anonymous, not authenticated and
\* has the anonymous rate limit; with a key the first failing check, in the
\* order key, headers, integer, window, signature, decides the failure, which
\* is a 401; only a call that passes them all is authenticated
C21_AuthOutcomes ==
    \A call \in AuthCalls :
        LET r == CallIdentity(call)
        IN  IF ClaimedFailure(call) # ""
            THEN r.raised /\ r.code = 401 /\ r.detail = ClaimedFailure(call)
                 /\ ~r.authenticated
            ELSE /\ ~r.raised
                 /\ r.authenticated = (call.headers.api_key # "")
                 /\ call.headers.api_key = "" =>
                        r.rate_limit = anonymous_rate_limit_per_minute

\* a call whose signature is wrong was answered 401 invalid_signature after
\* calls of the key k1 and anonymous calls had passed
C21_Witness ==
    /\ verify_resp = VerifyRaised(401, "invalid_signature")
    /\ \E c \in rate_cache : c.key = <<"k1">>
    /\ \E c \in rate_cache : c.key = <<"ip:", "h1">>

\* C22 as claimed: the identity of an authenticated key has the record's
\* rate_limit_per_minute, or the authenticated default when the record sets
\* none, and the record's allow_manifest_summary, or the global setting when
\* the record sets none
C22_IdentityFromRecord ==
    \A call \in AuthCalls :
        CallIdentity(call).authenticated =>
            LET record == KeyRecord(call.headers.api_key)
            IN  /\ CallIdentity(call).rate_limit =
                      IF record.rate_limit_per_minute # 0
                      THEN record.rate_limit_per_minute
                      ELSE authenticated_rate_limit_per_minute
                /\ CallIdentity(call).allow_manifest_summary =
                      IF record.has_allow THEN record.allow_manifest_summary
                      ELSE settings.allow_manifest_summary

-----------------------------------------------------------------------------
(* The ledger lookup *)

\* the entries whose column holds the hash
EntriesWith(column, hash) == {e \in ledger_entries : e[column] = hash}

\* the match the claim gives a request: by content hash, else by a supplied
\* manifest hash, else by a supplied signature hash, else none
FirstMatch(req) ==
    IF EntriesWith("content_hash", req.content_hash) # {}
    THEN EntriesWith("content_hash", req.content_hash)
    ELSE IF HasValue(req.manifest_hash)
            /\ EntriesWith("manifest_hash", req.manifest_hash) # {}
    THEN EntriesWith("manifest_hash", req.manifest_hash)
    ELSE IF HasValue(req.signature_hash)
    THEN EntriesWith("device_signature_hash", req.signature_hash)
    ELSE {}

\* C23: lookup_ledger returns the entry matched by the content hash, else by
\* the manifest hash if supplied, else by the signature hash if supplied; a
\* verification that finds none answers not_verified with reason
\* ledger_not_found and ledger_found, signature_valid, attestation_valid false
C23_LookupOrder ==
    /\ [](\A req \in LookupRequests : lookup_ledger(req) = FirstMatch(req))
    /\ [][\A req \in LookupRequests :
            (verify_resp'.code = 200 /\ FirstMatch(req) = {} /\ VerifyStep(req)) =>
                /\ verify_resp'.status = "not_verified"
                /\ verify_resp'.reason = "ledger_not_found"
                /\ ~verify_resp'.ledger_found
                /\ ~verify_resp'.signature_valid
                /\ ~verify_resp'.attestation_valid]_vars

\* the entries of the ledger do not share a hash in any column
C23_DistinctHashes ==
    \A e1, e2 \in ledger_entries :
        (e1.content_hash = e2.content_hash \/ e1.manifest_hash = e2.manifest_hash
         \/ e1.device_signature_hash = e2.device_signature_hash) => e1 = e2

\* a request whose content hash is in no entry was answered from the entry
\* its manifest or signature hash names (ledger_found with reason
\* ledger_not_found), after a request that matched no entry at all
C23_Witness ==
    /\ C23_DistinctHashes
    /\ verify_resp.status = "not_verified"
    /\ verify_resp.reason = "ledger_not_found"
    /\ verify_resp.ledger_found
    /\ \E item \in replay_cache : item.key = <<"cx">>

-----------------------------------------------------------------------------
(* Payload hygiene *)

\* the call passes the TLS check, authentication and the rate limiter
Admitted(call) ==
    /\ _require_tls(call.headers)
    /\ ~CallIdentity(call).raised
    /\ HitAllowed(RateKey(call.headers, CallIdentity(call)), CallIdentity(call).rate_limit)

\* a suspicious key, a byte value or a string with a media marker, at the
\* value itself or anywhere below it, in objects and in arrays
RECURSIVE HoldsMedia(_, _)
HoldsMedia(key, value) ==
    \/ Lower(key) \in SUSPICIOUS_KEYS
    \/ value.type = "bytes"
    \/ value.type = "str" /\ HoldsMarker(value.text)
    \/ value.type = "dict" /\ \E i \in 1..Len(value.items) :
                                  HoldsMedia(value.items[i][1], value.items[i][2])
    \/ value.type = "list" /\ \E i \in 1..Len(value.items) :
                                  HoldsMedia(<<>>, value.items[i])

\* C24: a verify request whose payload holds, at any nesting depth (inside
\* nested objects and inside arrays), a suspicious key, a byte value or a
\* string containing 'data:image' or 'base64,' in any letter case is rejected
\* with 400 media_payload_not_allowed or binary_payload_not_allowed.
C24_HygieneAtAnyDepth ==
    [][\A call \in {HygieneCall(k, p) : k \in HygieneKeys, p \in HygienePayloads} :
          (/\ ApiStep(call)
           /\ Admitted(call)
           /\ HoldsMedia(<<>>, model_dump(call.payload)))
          => /\ verify_resp'.status = "raised"
             /\ verify_resp'.code = 400
             /\ verify_resp'.reason \in {"media_payload_not_allowed",
                                         "binary_payload_not_allowed"}]_vars

\* the value is, or holds at some depth, a string longer than the limit
RECURSIVE HoldsLongString(_)
HoldsLongString(value) ==
    \/ value.type = "str" /\ Len(value.text) > MAX_STRING_LENGTH
    \/ value.type = "dict" /\ \E i \in 1..Len(value.items) :
                                  HoldsLongString(value.items[i][2])
    \/ value.type = "list" /\ \E i \in 1..Len(value.items) :
                                  HoldsLongString(value.items[i])

\* C25: the 512-character limit does not apply within manifest_summary: an
\* admitted verify request whose manifest_summary holds a string longer than
\* 512 characters is not rejected with unexpected_field_size, while such a
\* string in any other field of the request is.
C25_SummaryExemptFromLimit ==
    [][\A call \in {HygieneCall(k, p) : k \in HygieneKeys, p \in HygienePayloads} :
          (ApiStep(call) /\ Admitted(call))
          => /\ HoldsLongString(call.payload.manifest_summary)
                    => verify_resp'.reason # "unexpected_field_size"
             /\ (\E i \in 1..Len(model_dump(call.payload).items) :
                    /\ model_dump(call.payload).items[i][1] # KeyManifestSummary
                    /\ HoldsLongString(model_dump(call.payload).items[i][2]))
                    => verify_resp'.reason = "unexpected_field_size"]_vars

\* the failure the summary is due, "" when it is to be accepted
SummaryFailure(summary, permitted) ==
    CASE summary = JNull -> ""
      [] summary # JNull /\ ~permitted -> "manifest_summary_not_allowed"
      [] OTHER ->
            IF \E i \in 1..Len(summary.items) :
                    summary.items[i][1] \notin allowed_manifest_summary_fields
            THEN "manifest_summary_contains_disallowed_fields"
            ELSE IF EncodedSize(summary) <= manifest_summary_max_bytes THEN ""
            ELSE "manifest_summary_too_large"

SummaryDetails ==
    {"manifest_summary_not_allowed", "manifest_summary_contains_disallowed_fields",
     "manifest_summary_too_large"}

\* C26: for an admitted request that passes the hygiene step, an absent
\* summary is accepted for every client; a present one fails with 400
\* manifest_summary_not_allowed when the identity is not permitted, else with
\* manifest_summary_contains_disallowed_fields when a key is outside the
\* whitelist, else with manifest_summary_too_large when the encoded JSON
\* exceeds the cap, and is accepted otherwise (at exactly the cap too).
C26_ValidateManifestSummary ==
    [][\A call \in {HygieneCall(k, p) : k \in HygieneKeys, p \in HygienePayloads} :
          (/\ ApiStep(call)
           /\ Admitted(call)
           /\ ensure_payload_safe(model_dump(call.payload)) = "")
          => LET due == SummaryFailure(call.payload.manifest_summary,
                                       CallIdentity(call).allow_manifest_summary)
             IN  IF due # ""
                 THEN verify_resp' = VerifyRaised(400, due)
                 ELSE verify_resp'.reason \notin SummaryDetails]_vars

\* a permitted client was refused a summary over the cap
C26_Witness ==
    /\ settings.allow_manifest_summary
    /\ verify_resp = VerifyRaised(400, "manifest_summary_too_large")

-----------------------------------------------------------------------------
(* Certificate ingestion and CRL refresh *)

StoredRows(rows, cert_hash) == {c \in rows : c.cert_hash = cert_hash}

\* C27: ingest_certificate on a PEM whose DER hash is stored already updates
\* that row in place and adds no row: pem, serial_number and issuer are
\* replaced, metadata only when it is supplied, crl_urls only when the
\* certificate carries at least one, and revoked, revoked_at and
\* created_at_utc stay as they were; there is never more than one row for a
\* hash, however often a PEM is ingested.
C27_ReingestUpdatesInPlace ==
    /\ [](\A c \in attestation_certs : StoredRows(attestation_certs, c.cert_hash) = {c})
    /\ [][\A pem \in IngestPems, metadata \in IngestMetadata :
            (/\ ingest_certificate(pem, metadata)
             /\ StoredRows(attestation_certs, pem.cert_hash) # {})
            => \E old \in attestation_certs, new \in attestation_certs' :
                 /\ old.cert_hash = pem.cert_hash
                 /\ attestation_certs' = (attestation_certs \ {old}) \cup {new}
                 /\ Cardinality(attestation_certs') = Cardinality(attestation_certs)
                 /\ ingest_result' = new
                 /\ new.cert_hash = pem.cert_hash
                 /\ new.pem = pem.text
                 /\ new.serial_number = pem.serial_number
                 /\ new.issuer = pem.issuer
                 /\ metadata = NoMetadata => new.metadata_json = old.metadata_json
                 /\ metadata \notin {NoMetadata, EmptyMetadata}
                        => new.metadata_json = json_dumps(metadata)
                 /\ new.metadata_json \in {old.metadata_json, json_dumps(metadata)}
                 /\ new.crl_urls = IF pem.crl_urls = {} THEN old.crl_urls ELSE pem.crl_urls
                 /\ new.revoked = old.revoked
                 /\ new.revoked_at = old.revoked_at
                 /\ new.revocation_reason = old.revocation_reason
                 /\ new.last_checked_at = old.last_checked_at
                 /\ new.created_at_utc = old.created_at_utc]_vars

\* ka, ingested at instant 0 with metadata and revoked by a pass, was ingested
\* again at instant 300 in another PEM text without metadata; the row of kc
\* took the serial of its certificate and kept its CRL URL
C27_Witness ==
    /\ clock = 300
    /\ ingest_result.cert_hash = "ka"
    /\ ingest_result.pem = "pem-crlf"
    /\ ingest_result.revoked
    /\ ingest_result.metadata_json = json_dumps("env=test")
    /\ ingest_result.created_at_utc = 0
    /\ \E c \in attestation_certs :
          c.cert_hash = "kc" /\ c.serial_number = "2B" /\ c.crl_urls = {"u1"}
    /\ Cardinality(attestation_certs) = 2

\* the rows after the commit of a pass whose fetched CRLs list the serials U
RowsMarkedBy(U) ==
    /\ \A c \in attestation_certs :
          LET after == IF c.serial_number \notin U THEN c
                       ELSE IF c.revoked THEN [c EXCEPT !.last_checked_at = clock]
                       ELSE [c EXCEPT !.revoked = TRUE,
                                      !.revocation_reason = "crl_revoked",
                                      !.revoked_at = clock,
                                      !.last_checked_at = clock]
          IN  after \in attestation_certs'
    /\ Cardinality(attestation_certs') = Cardinality(attestation_certs)

NewlyRevoked(U) == {c \in attestation_certs : c.serial_number \in U /\ ~c.revoked}

\* the commit of a pass marks the rows by the serials it fetched and reports
\* the CRLs it read and the certificates it newly revoked
RefreshPassMarks ==
    [][RefreshMark =>
          /\ RowsMarkedBy(crl_pass.revoked_serials)
          /\ crl_pass'.outcome = "done"
          /\ crl_pass'.checked = crl_pass.checked
          /\ crl_pass'.revoked = Cardinality(NewlyRevoked(crl_pass.revoked_serials))]_vars

\* C28: a refresh_crls pass, with U the union of the serials of the CRLs it
\* fetched, revokes every stored certificate with serial in U that was not
\* revoked (revocation_reason crl_revoked, revoked_at = last_checked_at =
\* now), changes only last_checked_at of those revoked already, leaves the
\* others as they were, skips the URLs whose fetch or parse fails, and ends
\* with the report {checked: CRLs fetched, revoked: certificates newly
\* revoked}.
C28_RefreshPass ==
    [][(RefreshFetch \/ RefreshMark) =>
          /\ crl_pass'.outcome # "raised"
          /\ RefreshFetch => crl_pass'.revoked = 0
          /\ RefreshMark =>
                /\ RowsMarkedBy(crl_pass.revoked_serials)
                /\ crl_pass'.outcome = "done"
                /\ crl_pass'.checked = crl_pass.checked
                /\ crl_pass'.revoked =
                       Cardinality(NewlyRevoked(crl_pass.revoked_serials))]_vars

-----------------------------------------------------------------------------
(* Verifier endpoints: response headers, ledger lookup *)

LookupStep(call) ==
    /\ ledger_lookup(call.headers, call.payload)
    /\ UNCHANGED endpointFrame

CertificateStep(call) ==
    /\ get_certificate(call.headers, call.cert_hash)
    /\ UNCHANGED endpointFrame

\* the headers the response to the request is to carry
CarriesHeaders(headers, response_headers) ==
    /\ response_headers.cache_control = "private, max-age=30"
    /\ response_headers.request_id # ""
    /\ headers.request_id # "" => response_headers.request_id = headers.request_id

\* C29: every response of /api/v1/verify, /api/v1/ledger/lookup and
\* /api/v1/certs/{cert_hash}, for success and for error outcomes alike,
\* carries Cache-Control: private, max-age=30 and an X-Request-ID that echoes
\* the one of the request when it sent one.
C29_ResponseHeaders ==
    [][/\ \A call \in EndpointCalls :
             (ApiStep(call) \/ LookupStep(call)) => CarriesHeaders(call.headers, resp_headers')
       /\ \A call \in CertificateCalls :
             CertificateStep(call) => CarriesHeaders(call.headers, resp_headers')]_vars

\* the responses that are not raised carry the headers
HeadersOnSuccess ==
    [][/\ \A call \in EndpointCalls :
             ((ApiStep(call) \/ LookupStep(call)) /\ verify_resp'.status # "raised")
             => CarriesHeaders(call.headers, resp_headers')
       /\ \A call \in CertificateCalls :
             (CertificateStep(call) /\ verify_resp'.status # "raised")
             => CarriesHeaders(call.headers, resp_headers')]_vars

\* C30: the ledger-lookup endpoint serves an entry only to a client
\* authenticated by API key and HMAC; an anonymous request fails with 401
\* api_key_required before the rate limiter and the lookup; an admitted
\* request gets the entry the lookup finds or 404 ledger_not_found; the
\* replay cache is neither consulted nor written, so a lookup is never
\* rejected as a replay.
C30_LookupOnly ==
    [][\A call \in EndpointCalls : LookupStep(call) =>
          /\ replay_cache' = replay_cache
          /\ verify_resp'.reason # "replay_detected"
          /\ verify_resp'.status = "ok" =>
                CorrectlySigned(call) /\ CallIdentity(call).authenticated
          /\ (_require_tls(call.headers) /\ call.headers.api_key = "")
                => /\ verify_resp' = VerifyRaised(401, "api_key_required")
                   /\ rate_cache' = rate_cache
          /\ (Admitted(call) /\ CallIdentity(call).authenticated)
                => IF FirstMatch(call.payload) = {}
                   THEN verify_resp' = VerifyRaised(404, "ledger_not_found")
                   ELSE /\ verify_resp'.status = "ok"
                        /\ verify_resp'.ledger_entry \in FirstMatch(call.payload)]_vars

\* the entry was served to k1 while the replay cache holds the key of a
\* verification of the same payload that has not expired
C30_Witness ==
    /\ verify_resp \in {LedgerLookupResponse(e) :
                            e \in EntriesWith("content_hash", "ca")}
    /\ \E item \in replay_cache : item.expires > clock
    /\ resp_headers.request_id = "r2"

-----------------------------------------------------------------------------
(* Rate limiter: window reset and sliding intervals *)

\* the call passes the TLS check and authentication, and so reaches the limiter
ReachesLimiter(call) == _require_tls(call.headers) /\ ~CallIdentity(call).raised

StoredFor(key) == {c \in rate_cache : c.key = key}

\* C31: a hit of a key whose stored window started 60 s ago or earlier (or
\* that has no stored window), under a limit of at least 1, is allowed and
\* starts a window at the present instant with one hit, whatever hits were
\* denied before; a denied hit leaves window_start as it was, so a key that
\* is hit while denied is allowed again no later than 60 s after its
\* window_start.
C31_WindowReset ==
    [][\A call \in ApiCalls :
          (/\ clock' = clock
           /\ ReachesLimiter(call)
           /\ CallIdentity(call).rate_limit >= 1
           /\ ApiStep(call)) =>
             LET key == RateKey(call.headers, CallIdentity(call))
             IN  /\ (\A c \in StoredFor(key) : clock - c.window_start >= window_seconds)
                       => /\ verify_resp' # VerifyRaised(429, "rate_limited")
                          /\ \E after \in rate_cache' :
                                /\ after.key = key
                                /\ after.window_start = clock
                                /\ after.hits = 1
                 /\ verify_resp' = VerifyRaised(429, "rate_limited")
                       => \E c \in StoredFor(key), after \in rate_cache' :
                             /\ after.key = key
                             /\ after.window_start = c.window_start
                             /\ after.hits = c.hits
                             /\ clock - c.window_start < window_seconds]_vars

\* at instant 60 a hit of k1 was allowed and started a window, while the
\* anonymous client, last hit at instant 30, is at its limit in the window
\* that started at instant 0
C31_Witness ==
    /\ clock = window_seconds
    /\ verify_resp # VerifyRaised(429, "rate_limited")
    /\ verify_resp.code \notin {400, 401}
    /\ \E c \in rate_cache :
          c.key = <<"k1">> /\ c.window_start = window_seconds /\ c.hits = 1
    /\ \E c \in rate_cache :
          /\ c.key = <<"ip:", "h1">>
          /\ c.window_start = 0
          /\ c.hits = anonymous_rate_limit_per_minute
          /\ c.expires = 30 + window_seconds

-----------------------------------------------------------------------------
(* TrustedTime *)

Refreshing == {t \in Threads : trusted_time.pc[t] = "refresh"}

\* at most one refresh is in flight, its thread holds the mutex, and any two
\* refreshes were started at least refresh_interval apart
OneRefreshPerInterval ==
    /\ Cardinality(Refreshing) <= 1
    /\ \A t \in Threads :
          trusted_time.pc[t] \in {"refresh", "adjust"} <=> trusted_time.lock = t
    /\ \A a, b \in trusted_time.starts : a # b => Abs(a - b) >= refresh_interval

\* C32 as claimed: at most one refresh is in flight at a time, a refresh is
\* started at most once per refresh_interval, and only the caller that
\* performs the refresh waits on NTP I/O: no other caller of now() is held up
\* while a refresh is in flight.
C32_OnlyRefresherWaits ==
    /\ OneRefreshPerInterval
    /\ \A t \in Threads :
          trusted_time.pc[t] = "lock" => Refreshing = {}

\* C32: at most one refresh is in flight at a time and a refresh is started
\* at most once per refresh_interval; the refresh runs while the mutex is
\* held, so the caller that performs the first refresh of an interval waits
\* on NTP I/O and a caller that arrives while that refresh is in flight
\* waits for the mutex until it ends; while no refresh is in flight the
\* mutex is held only for the computation of the adjusted time.
C32_RefreshUnderMutex ==
    /\ OneRefreshPerInterval
    /\ \A t \in Refreshing :
          /\ trusted_time.current[t] \in trusted_time.starts
          /\ trusted_time.current[t] - trusted_time.last_fetch > refresh_interval
          /\ \A a \in trusted_time.starts : a <= trusted_time.current[t]
    /\ Refreshing = {} =>
          \A t \in Threads : trusted_time.lock = t => trusted_time.pc[t] = "adjust"

\* the second refresh, started by t1 at instant 161, is in flight and t2 has
\* called now() and waits for the mutex
C32_Witness ==
    /\ trusted_time.starts = {100, 161}
    /\ trusted_time.pc["t1"] = "refresh"
    /\ trusted_time.pc["t2"] = "lock"
    /\ trusted_time.adjusted["t2"] = 130 + 3

\* C33 as claimed: in every interval of 60 s, aligned with a window or not,
\* at most `limit` hits of a key are allowed.
C33_SlidingWindowBound ==
    \A c \in rate_cache : Len(c.allowed) <= KeyLimit(c.key)

\* C33: under a limit of at least 1, in every interval [t, t + 60 s) at most
\* 2 * limit - 1 hits of a key are allowed: at most limit - 1 from a window
\* that started before t and at most limit from the one window that can
\* start within the interval.
C33_TwoWindowsBound ==
    \A c \in rate_cache :
        /\ KeyLimit(c.key) >= 1
        /\ Len(c.allowed) <= 2 * KeyLimit(c.key) - 1
        /\ \A i, j \in 1..Len(c.allowed) :
              i <= j => /\ c.allowed[i] <= c.allowed[j]
                        /\ c.allowed[j] - c.allowed[i] < window_seconds

\* within the 60 s that end at instant 60, k1 was allowed its limit of hits
\* in the window that started at 60 and all but the first hit of the window
\* that started at 0
C33_Witness ==
    \E c \in rate_cache :
        /\ clock = window_seconds
        /\ c.key = <<"k1">>
        /\ c.window_start = window_seconds
        /\ Len(c.allowed) = 2 * rate_limit_per_minute("k1") - 1
        /\ c.allowed[1] = 30

-----------------------------------------------------------------------------
(* Ledger artifacts and the database *)

\* the batch ids roots/ledger_index.json, roots/daily_roots.csv and
\* proofs/proof_manifest.jsonl list
ListedBatchIds ==
    {ledger.index[i].batch_id : i \in DOMAIN ledger.index}
      \cup {ledger.csv[i][3] : i \in DOMAIN ledger.csv}
      \cup {ledger.proofs[i].batch_id : i \in DOMAIN ledger.proofs}

\* the record ids the batch file and the proof manifest list under batch id b
RecordsListedUnder(b) ==
    UNION {{x.records[i].record_id : i \in DOMAIN x.records} :
             x \in {y \in ledger.batches : y.batch_id = b}}
      \cup UNION {{ledger.proofs[k].records[i].record_id :
                      i \in DOMAIN ledger.proofs[k].records} :
                    k \in {j \in DOMAIN ledger.proofs : ledger.proofs[j].batch_id = b}}

NoPassInFlight == \A p \in Sealers : sealer[p].pc = "idle"

\* C34: when no sealer pass is in flight, whatever passes ran before (passes
\* whose commit raised and passes that overlapped included), every batch the
\* index, the CSV and the proof manifest list is a committed batch, every
\* record listed under it has that batch_id as merkle_batch_id, and no
\* record_id is listed under two batches.
C34_ArtifactsAgree ==
    NoPassInFlight
    => /\ \A b \in ListedBatchIds :
             /\ b \in commits
             /\ \A id \in RecordsListedUnder(b) :
                   capture_records[id].merkle_batch_id = b
       /\ \A b, c \in ListedBatchIds :
             b # c => RecordsListedUnder(b) \cap RecordsListedUnder(c) = {}

-----------------------------------------------------------------------------
(* Sealing progress (SpecProgress, SpecProgressSerial) *)

\* the committed batches whose batch file lists record i
CommittedBatchesOf(i) ==
    {b \in ledger.batches :
        /\ b.batch_id \in commits
        /\ \E k \in DOMAIN b.records : b.records[k].record_id = i}

SealedAtMostOnce ==
    \A i \in DOMAIN capture_records : Cardinality(CommittedBatchesOf(i)) <= 1

\* the commit of a pass leaves every record the pass did not select as it was
CommitSparesLaterRecords ==
    \A p \in Sealers :
        (sealer[p].pc = "commit" /\ sealer'[p].pc # "commit")
        => \A i \in DOMAIN capture_records :
              i \notin RecordIds(sealer[p])
              => capture_records'[i] = capture_records[i]

\* lock-proof creates a record with NULL sealing fields that no pass in
\* flight holds
LockedOutsidePasses ==
    Len(capture_records') > Len(capture_records)
    => /\ Unsealed(capture_records'[Len(capture_records')])
       /\ \A p \in Sealers : Len(capture_records') \notin RecordIds(sealer'[p])

\* selectable records are not left waiting for ever with no pass in flight
\* (batch ids are capped at MaxBatches)
PassesKeepRunning ==
    []<>(\/ \E p \in Sealers : sealer[p].pc # "idle"
         \/ PendingIds = {}
         \/ next_batch = MaxBatches)

\* every record is sealed at some time
EventuallySealed ==
    \A i \in 1..MaxRecords :
        [](i \in DOMAIN capture_records
             => <>(\/ i \in DOMAIN capture_records /\ FullySealed(capture_records[i])
                   \/ next_batch = MaxBatches))

\* C35: when sealer passes keep being run and every pass succeeds, every
\* record lock-proof created is sealed at some time and is sealed once (one
\* committed batch lists it); a record lock-proof creates while a pass is
\* between its select and its commit is not in that pass's batch, is left
\* with NULL sealing fields by that pass's commit, and is sealed later.
C35_SealingProgress ==
    /\ PassesKeepRunning => EventuallySealed
    /\ []SealedAtMostOnce
    /\ [][CommitSparesLaterRecords /\ LockedOutsidePasses]_vars

-----------------------------------------------------------------------------
(* Rotation of an existing device's token (SpecEnrol) *)

\* the rows of row's device after the step differ from row in token or key
Rebound(row) ==
    \E new \in device_tokens' :
        /\ new.device_id = row.device_id
        /\ new.token # row.token \/ new.public_key # row.public_key

\* the step serves an enrol request without the stored token of row's device
\* and with the given force flags
EnrolsWithoutToken(row, flags) ==
    \E current_token \in EnrollTokens \ {row.token}, public_key \in PublicKeys,
       force \in flags, devicecheck_ok \in BOOLEAN :
        EnrollStep(row.device_id, public_key, current_token, force, devicecheck_ok)

\* C36 as stated: an enrol request for an existing device that lacks the
\* stored token, whatever its force flag, leaves the token table unchanged
\* and is answered without a token.
C36_RotationNeedsToken ==
    [][\A row \in device_tokens :
          (row.device_id = enroll_resp'.device_id /\ now' = now
              /\ EnrolsWithoutToken(row, BOOLEAN))
          => /\ device_tokens' = device_tokens
             /\ enroll_resp'.token = NoToken
       ]_vars

\* C36: for an existing device, an enrol request with force = false that
\* lacks the stored token leaves the token table unchanged and is answered
\* without a token; the stored token or the bound public key of a device is
\* replaced only by an enrol request that carries the stored token or has
\* force = true.
C36_RotationNeedsTokenOrForce ==
    [][\A row \in device_tokens :
          /\ (row.device_id = enroll_resp'.device_id /\ now' = now
                 /\ EnrolsWithoutToken(row, {FALSE}))
             => /\ device_tokens' = device_tokens
                /\ enroll_resp'.token = NoToken
          /\ Rebound(row)
             => \E public_key \in PublicKeys, current_token \in EnrollTokens,
                   force \in BOOLEAN :
                   /\ force \/ current_token = row.token
                   /\ EnrollStep(row.device_id, public_key, current_token, force, TRUE)
       ]_vars

\* a request without the stored token was refused for a device whose token
\* had been rotated and whose key had been rebound before
C36_Witness ==
    /\ enroll_resp.status = 403
    /\ enroll_resp.detail = "current_token required and must match existing token"
    /\ \E row \in RowsOf(enroll_resp.device_id) :
          row.token > 1 /\ row.public_key = KeyB

-----------------------------------------------------------------------------
(* Tokens that authorize lock-proof (SpecRotate) *)

\* the tokens that authorize lock-proof for device d at this instant
Authorizing(d) == {r.token : r \in {x \in RowsOf(d) : now < x.expires_at}}

\* the tokens issued for a device before the one its row stores
PreviousTokens(d) == {t \in 1..next_token : \A r \in RowsOf(d) : r.token # t}

C37_LockStep ==
    \A req \in RotateLockRequests :
        (lock_resp'.status # 0 /\ now' = now /\ LockStep(req))
        => /\ lock_resp'.status = 200 => req.token \in Authorizing(req.x_device_id)
           /\ req.token \in PreviousTokens(req.x_device_id)
              => /\ lock_resp'.status \in {401, 403}
                 /\ capture_records' = capture_records
           /\ lock_resp'.status # 200 => capture_records' = capture_records

\* C37: at any time at most one token authorizes lock-proof for a device;
\* once a rotation has committed, a lock-proof request carrying a previous
\* token is rejected and persists no record; and a request is accepted only
\* with the token of the device's row while now < expires_at of that row.
C37_OneAuthorizingToken ==
    /\ [](\A d \in Devices : Cardinality(Authorizing(d)) <= 1)
    /\ [][C37_LockStep]_vars

\* after two rotations a request with the first token was refused, and
\* records were locked before
C37_Witness ==
    /\ lock_resp.status = 403
    /\ next_token = 3
    /\ Len(capture_records) = 2
    /\ PreviousTokens("d1") = {1, 2}

-----------------------------------------------------------------------------
(* Failure reason and details.ledger_found (SpecVerify) *)

FoundReasons == {"attestation_revoked", "signature_mismatch", "timestamp_mismatch"}

\* C38 as stated: in a failure response, reason is ledger_not_found exactly
\* when ledger_found is false, and a response with ledger_found true carries
\* attestation_revoked, signature_mismatch or timestamp_mismatch.
C38_NotFoundIffLedgerNotFound ==
    verify_resp.status = "not_verified"
    => /\ verify_resp.reason = "ledger_not_found" <=> ~verify_resp.ledger_found
       /\ verify_resp.ledger_found => verify_resp.reason \in FoundReasons

\* the entry found differs from the request in content_hash only
OnlyContentDiffers(req) ==
    \E e \in lookup_ledger(req) :
        /\ ~ContentMatches(req, e)
        /\ AttestationHolds(req, e)
        /\ SignatureHolds(req, e)
        /\ ManifestHolds(req, e)
        /\ TimestampHolds(e)

\* C38: in a failure response, ledger_found false implies reason
\* ledger_not_found; reason is ledger_not_found exactly when ledger_found is
\* false or the entry found (through its manifest or signature hash) differs
\* from the request in content_hash only; a response with ledger_found true
\* carries ledger_not_found, attestation_revoked, signature_mismatch or
\* timestamp_mismatch.
C38_NotFoundOrContentOnly ==
    [][\A req \in VerifyRequests :
          (verify_resp'.status = "not_verified" /\ clock' = clock /\ VerifyStep(req))
          => /\ verify_resp'.ledger_found <=> lookup_ledger(req) # {}
             /\ verify_resp'.reason = "ledger_not_found"
                   <=> (~verify_resp'.ledger_found \/ OnlyContentDiffers(req))
             /\ verify_resp'.reason \in FoundReasons \cup {"ledger_not_found"}
      ]_vars

\* an entry was found, every check but the content match passed, and the
\* answer is ledger_not_found with ledger_found true
C38_Witness ==
    /\ verify_resp.status = "not_verified"
    /\ verify_resp.reason = "ledger_not_found"
    /\ verify_resp.ledger_found
    /\ verify_resp.signature_valid
    /\ verify_resp.attestation_valid

-----------------------------------------------------------------------------
(* The verify pipeline and the replay cache (SpecPipeline) *)

\* the payload passes payload hygiene and manifest-summary validation
PayloadPasses(call) ==
    /\ ensure_payload_safe(model_dump(call.payload)) = ""
    /\ validate_manifest_summary(call.payload.manifest_summary,
                                 CallIdentity(call).allow_manifest_summary) = ""

C39_Step(call) ==
    (clock' = clock /\ ApiStep(call))
    => /\ replay_cache' # replay_cache => Admitted(call) /\ PayloadPasses(call)
       /\ (verify_resp'.status = "raised"
              /\ (verify_resp'.code \in {400, 401}
                    \/ verify_resp'.reason = "rate_limited"))
          => replay_cache' = replay_cache
       /\ verify_resp'.status \in {"verified", "not_verified"}
          => \E item \in replay_cache' :
                /\ item.key = ReplayKey(call.payload)
                /\ item.expires = clock + replay_cache_ttl_seconds
       /\ (Admitted(call) /\ PayloadPasses(call)
              /\ \E item \in replay_cache :
                    item.key = ReplayKey(call.payload) /\ clock < item.expires)
          => /\ verify_resp' = VerifyRaised(429, "replay_detected")
             /\ replay_cache' = replay_cache
       /\ ~ReachesLimiter(call) => rate_cache' = rate_cache

\* C39: the replay key is inserted only after TLS, authentication, the rate
\* limit, payload hygiene and manifest-summary validation have passed, and
\* whatever the verdict: a request answered 400, 401 or 429 rate_limited
\* leaves the replay cache unchanged; a request answered verified or
\* not_verified leaves its key in the cache for the TTL, during which the
\* same request is answered 429 replay_detected; a request rejected by TLS
\* or authentication leaves the limiter's cache unchanged.
C39_PipelineOrder ==
    [][\A scheme \in PipelineSchemes, api_key \in PipelineKeys,
          payload \in PipelinePayloads :
          C39_Step(PipelineCall(scheme, api_key, payload))]_vars

\* the resend of a request answered not_verified was refused as a replay,
\* with the limiter holding the hits of both
C39_Witness ==
    /\ verify_resp = VerifyRaised(429, "replay_detected")
    /\ \E item \in replay_cache : item.key = <<"cx">> /\ clock < item.expires
    /\ \A item \in replay_cache : item.key = <<"cx">>
    /\ \E c \in rate_cache : c.key = <<"ip:", "h1">> /\ c.hits = 2

-----------------------------------------------------------------------------
(* CRLs and the certificates they revoke (SpecCrl) *)

\* the stored certificates the step revokes
RevokedByStep ==
    {c \in attestation_certs :
        /\ ~c.revoked
        /\ \E d \in attestation_certs' : d.cert_hash = c.cert_hash /\ d.revoked}

\* the CRL comes from one of the certificate's own URLs or from its issuer
OwnCrl(c, crl) == crl.url \in c.crl_urls \/ crl.issuer = c.issuer

=============================================================================
